---- MODULE Spec2Model ----
(***************************************************************************)
(* WhatsAppSecretary: the tool-calling broker between a language model and *)
(* the calendar tools.                                                     *)
(*                                                                         *)
(* Spec processes one incoming message, along one of two paths:            *)
(*   GPT4MCPBridge.processMessage: the bounded iterate / call / observe    *)
(*   loop over an OpenAI function-calling conversation;                    *)
(*   MCPLLMService.processEventMessage: one model output text is scraped   *)
(*   for JSON (parseToolResponse), the tool calls are executed through     *)
(*   CalendarMCPServer.handleRequest.                                      *)
(*                                                                         *)
(* Text (a model output, a tool call's arguments string) is a sequence of  *)
(* tokens; JSON.parse is a recursive-descent parser over that sequence.    *)
(***************************************************************************)
EXTENDS Integers, Sequences, FiniteSets, TLC

(***************************************************************************)
(* Bounds of the model.                                                    *)
(***************************************************************************)
\* config.openai.maxIterations, the configurable iteration ceiling
maxIterations == 2
\* most tool calls one assistant turn of the bridge carries
MaxToolCalls == 2
\* most tool calls the model emits over one processMessage run
MaxRunCalls == 2
\* most entries of the tool_calls array in a scraped JSON payload
MaxPayloadCalls == 2

(***************************************************************************)
(* The Capability Catalog.                                                 *)
(***************************************************************************)
\* the five tools of setupToolDefinitions / setupTools / validToolNames
validToolNames ==
    {"list_calendar_events", "create_calendar_event", "update_calendar_event",
     "delete_calendar_event", "search_calendar_events"}

\* a name outside the catalog, as a confused or adversarial model emits it
UnknownToolName == "send_email"

(***************************************************************************)
(* Text as tokens.  "{" "}" "[" "]" "," are the JSON punctuation, a token  *)
(* "x:" is the member key "x" with its colon, the other tokens of          *)
(* ScalarTokens are string literals ("" the empty one), "null" is the null *)
(* literal and "prose" a run of text without braces.                       *)
(***************************************************************************)
KeyTokens ==
    {"intent:", "reasoning:", "tool_calls:", "name:", "arguments:",
     "title:", "start_time:", "start_date:", "end_date:", "query:",
     "event_identifier:", "event_id:", "updates:", "confirmation:"}

ScalarTokens ==
    validToolNames \cup
    {UnknownToolName, "create_event", "delete_event", "value", "", "null",
     "true", "false"}

\* JSON values: t is the type tag ("u" undefined, "s" scalar, "o" object,
\* "a" array), s the scalar's token, k the member key (of a member of an
\* object), m the members of an object or the elements of an array.
Undefined == [t |-> "u", s |-> "", k |-> "", m |-> <<>>]
Scalar(tok) == [t |-> "s", s |-> tok, k |-> "", m |-> <<>>]
Object(members) == [t |-> "o", s |-> "", k |-> "", m |-> members]
Array(elements) == [t |-> "a", s |-> "", k |-> "", m |-> elements]
Member(key, v) == [v EXCEPT !.k = key]

\* the result of a parsing step: ok, the value, the position after it
Parsed(v, next) == [ok |-> TRUE, v |-> v, next |-> next]
SyntaxError == [ok |-> FALSE, v |-> Undefined, next |-> 0]

RECURSIVE ParseValue(_, _), ParseMembers(_, _, _), ParseElements(_, _, _)

\* members of an object from position i on, acc the members read so far;
\* i stands on a key
ParseMembers(toks, i, acc) ==
    IF i + 1 > Len(toks) \/ toks[i] \notin KeyTokens THEN SyntaxError
    ELSE LET r == ParseValue(toks, i + 1) IN
         IF ~r.ok THEN SyntaxError
         ELSE LET got == Append(acc, Member(toks[i], r.v)) IN
              IF r.next > Len(toks) THEN SyntaxError
              ELSE IF toks[r.next] = "}" THEN Parsed(Object(got), r.next + 1)
              ELSE IF toks[r.next] = "," THEN ParseMembers(toks, r.next + 1, got)
              ELSE SyntaxError

\* elements of an array from position i on; i stands on a value
ParseElements(toks, i, acc) ==
    LET r == ParseValue(toks, i) IN
    IF ~r.ok THEN SyntaxError
    ELSE LET got == Append(acc, r.v) IN
         IF r.next > Len(toks) THEN SyntaxError
         ELSE IF toks[r.next] = "]" THEN Parsed(Array(got), r.next + 1)
         ELSE IF toks[r.next] = "," THEN ParseElements(toks, r.next + 1, got)
         ELSE SyntaxError

ParseValue(toks, i) ==
    IF i > Len(toks) THEN SyntaxError
    ELSE IF toks[i] \in ScalarTokens THEN Parsed(Scalar(toks[i]), i + 1)
    ELSE IF toks[i] = "{" THEN
        IF i + 1 <= Len(toks) /\ toks[i + 1] = "}"
        THEN Parsed(Object(<<>>), i + 2)
        ELSE ParseMembers(toks, i + 1, <<>>)
    ELSE IF toks[i] = "[" THEN
        IF i + 1 <= Len(toks) /\ toks[i + 1] = "]"
        THEN Parsed(Array(<<>>), i + 2)
        ELSE ParseElements(toks, i + 1, <<>>)
    ELSE SyntaxError

\* JSON.parse(text): the whole text is one value, or a SyntaxError is thrown
JSONParse(toks) ==
    LET r == ParseValue(toks, 1) IN
    IF r.ok /\ r.next = Len(toks) + 1 THEN r ELSE SyntaxError

\* obj.key of JavaScript: the last member of that key, undefined when the
\* object has none (or the value is no object)
Get(v, key) ==
    LET hits == {j \in 1..Len(v.m) : v.m[j].k = key} IN
    IF v.t # "o" \/ hits = {} THEN Undefined
    ELSE LET j == CHOOSE x \in hits : \A y \in hits : y <= x IN
         [v.m[j] EXCEPT !.k = ""]

\* JavaScript truthiness: undefined, null, false and "" are falsy, every
\* object and array is truthy
Falsy(v) == v.t = "u" \/ (v.t = "s" /\ v.s \in {"null", "", "false"})

(***************************************************************************)
(* What the language model can emit to the bridge.                         *)
(***************************************************************************)
\* an arguments string with every required field of the bridge's schema
BridgeArguments(name) ==
    CASE name = "list_calendar_events" ->
           <<"{", "start_date:", "value", ",", "end_date:", "value", "}">>
      [] name = "create_calendar_event" ->
           <<"{", "title:", "value", ",", "start_time:", "value", "}">>
      [] name = "update_calendar_event" ->
           <<"{", "event_id:", "value", ",",
             "updates:", "{", "title:", "value", "}", "}">>
      [] name = "delete_calendar_event" ->
           <<"{", "event_id:", "value", "}">>
      [] name = "search_calendar_events" ->
           <<"{", "query:", "value", "}">>
      [] OTHER -> <<"{", "}">>

\* the same string cut off before its closing brace (a truncated completion)
Truncated(toks) == SubSeq(toks, 1, Len(toks) - 1)

\* the function part of one tool call of an assistant message
ToolCallInputs ==
    {[name |-> n, arguments |-> BridgeArguments(n)] :
        n \in validToolNames \cup {UnknownToolName}}
    \cup {[name |-> n, arguments |-> Truncated(BridgeArguments(n))] :
        n \in {"create_calendar_event", UnknownToolName}}

\* what a Calendar Store call can do: return normally, return
\* {success:false, error}, or throw; getEvents returns a list or throws
StoreOutcomes(name) ==
    IF name \in {"list_calendar_events", "search_calendar_events"}
    THEN {"ok", "throw"}
    ELSE {"ok", "failure", "throw"}

(***************************************************************************)
(* State.                                                                  *)
(***************************************************************************)
VARIABLES
    pc,                \* processMessage: "loop", "tools", "await", "done"
    iteration,         \* let iteration
    messages,          \* const messages, the conversation
    assistantMessage,  \* response.choices[0].message of this iteration
    toolIdx,           \* position of the for-of loop in tool_calls
    returned,          \* <<>>, or <<the value processMessage returned>>
    escaped,           \* an exception left processMessage
    modelCalls,        \* calls of openai.chat.completions.create so far
    nextId,            \* the id the API gives its next tool call
    execLog,           \* executeToolCall: calls entered and left, in order
    outcomes,          \* what the Calendar Store did for each settled call
    mpc,               \* processEventMessage: "generate", "tools", "await",
                       \* "done"
    llmResponse,       \* response.data.response, the model's output text
    response,          \* what generateResponseWithTools returned
    callIdx,           \* let i of the loop over response.toolCalls
    toolResults,       \* const toolResults
    executed,          \* the tool calls handed to executeTool, in order
    processed,         \* <<>>, or <<the value processEventMessage returned>>
    attempt,           \* let attempt of generateResponseWithTools
    delays,            \* the setTimeout delays awaited between attempts
    storeCalls,        \* for each settled tool call of the MCP service, the
                       \* Calendar Store operations its handler called
    op,                \* SpecTools: the operation applied and its arguments
    out,               \* SpecTools: <<>>, or <<what the operation returned>>
    tasks,             \* WhatsAppSecretary: for each message, where its
                       \* handling is and the event key extracted from it
    queue,             \* calendarLimit: the tasks waiting, oldest first
    activeCount,       \* calendarLimit: the tasks running
    recentEvents,      \* this.recentEvents: the event keys remembered
    timers,            \* the pending setTimeout callbacks of rememberEvent,
                       \* for each event key
    created,           \* the events the Calendar Store holds, for each key
    stats,             \* this.stats: messagesProcessed, eventsDetected and
                       \* eventsCreated
    runs,              \* SpecRuns: for each call of processMessage in
                       \* progress its iteration, the tool calls of its
                       \* assistant turn not settled yet, and the
                       \* conversations its model calls were sent
    conversations      \* SpecRuns: the arrays `const messages` allocated

bridgeVars == <<pc, iteration, messages, assistantMessage, toolIdx, returned,
                escaped, modelCalls, nextId, execLog>>

mcpVars == <<mpc, llmResponse, response, callIdx, toolResults, executed,
             processed, attempt, delays, storeCalls>>

opVars == <<op, out>>

appVars == <<tasks, queue, activeCount, recentEvents, timers, created, stats>>

runVars == <<runs, conversations>>

vars == <<bridgeVars, outcomes, mcpVars, opVars, appVars, runVars>>

\* one conversation turn; result is <<>> or <<the tool's result>>
Turn(role, content, tool_calls, tool_call_id, result) ==
    [role |-> role, content |-> content, tool_calls |-> tool_calls,
     tool_call_id |-> tool_call_id, result |-> result]

\* the JSON a tool turn carries
ToolResult(success, error, message) ==
    [success |-> success, error |-> error, message |-> message]

NoMessage == [content |-> "", tool_calls |-> <<>>]

(***************************************************************************)
(* GPT4MCPBridge.processMessage                                            *)
(***************************************************************************)
InitBridge ==
    /\ pc = "loop"
    /\ iteration = 0
    /\ messages = <<Turn("system", "prompt", <<>>, 0, <<>>),
                    Turn("user", "messageText", <<>>, 0, <<>>)>>
    /\ assistantMessage = NoMessage
    /\ toolIdx = 0
    /\ returned = <<>>
    /\ escaped = FALSE
    /\ modelCalls = 0
    /\ nextId = 1
    /\ execLog = <<>>

\* the loop without its ceiling: while (true)
LoopGuardUnbounded(i) == TRUE

\* while (iteration < maxIterations)
LoopGuard(i) == i < maxIterations

\* the tool_calls the API can answer with: up to MaxToolCalls calls, ids
\* given by the API in order of emission, unique within the run
ModelToolCalls ==
    LET room == IF MaxRunCalls - (nextId - 1) < MaxToolCalls
                THEN MaxRunCalls - (nextId - 1) ELSE MaxToolCalls
    IN UNION {{[j \in 1..n |-> [id |-> nextId + j - 1, function |-> f[j]]] :
                  f \in [1..n -> ToolCallInputs]} : n \in 1..room}

Return(value) ==
    /\ returned' = <<value>>
    /\ pc' = "done"
    /\ UNCHANGED escaped

\* catch (error) of the try around one iteration: no filter, it catches
\* every exception thrown by the model call and by the tool loop
OuterCatches(exception) == TRUE

\* an exception thrown inside the outer try: the API-error result, or the
\* exception leaves processMessage
ThrowInIteration(exception, iterations) ==
    IF OuterCatches(exception)
    THEN Return([success |-> FALSE, error |-> "GPT-4 API error",
                 cause |-> exception, response |-> "",
                 iterations |-> iterations])
    ELSE escaped' = TRUE /\ pc' = "done" /\ UNCHANGED returned

\* the request to the model fails (network, HTTP error, timeout): the outer
\* catch returns the API-error result
ModelCallFails ==
    /\ UNCHANGED <<opVars, appVars, runVars>>
    /\ pc = "loop" /\ LoopGuard(iteration)
    /\ iteration' = iteration + 1
    /\ modelCalls' = modelCalls + 1
    /\ ThrowInIteration("request failed", iteration + 1)
    /\ UNCHANGED <<messages, assistantMessage, toolIdx, nextId, execLog,
                   outcomes, mcpVars>>

\* a final response that drops the assistant's text
FinalResponseFixed(content) == "Task completed successfully."

\* response: assistantMessage.content || "Task completed successfully."
FinalResponse(content) ==
    IF content = "" THEN "Task completed successfully." ELSE content

\* the model answers without tool calls: the run completes
ModelAnswers ==
    /\ UNCHANGED <<opVars, appVars, runVars>>
    /\ pc = "loop" /\ LoopGuard(iteration)
    /\ \E content \in {"", "final answer"} :
        /\ iteration' = iteration + 1
        /\ modelCalls' = modelCalls + 1
        /\ assistantMessage' = [content |-> content, tool_calls |-> <<>>]
        /\ messages' = Append(messages, Turn("assistant", content, <<>>, 0, <<>>))
        /\ Return([success |-> TRUE, error |-> "", cause |-> "",
                   response |-> FinalResponse(content),
                   iterations |-> iteration + 1])
    /\ UNCHANGED <<toolIdx, nextId, execLog, outcomes, mcpVars>>

\* the model answers with tool calls: the for-of loop starts
ModelRequestsTools ==
    /\ UNCHANGED <<opVars, appVars, runVars>>
    /\ pc = "loop" /\ LoopGuard(iteration)
    /\ \E calls \in ModelToolCalls :
        /\ iteration' = iteration + 1
        /\ modelCalls' = modelCalls + 1
        /\ assistantMessage' = [content |-> "", tool_calls |-> calls]
        /\ messages' = Append(messages, Turn("assistant", "", calls, 0, <<>>))
        /\ nextId' = nextId + Len(calls)
        /\ toolIdx' = 1
        /\ pc' = "tools"
    /\ UNCHANGED <<returned, escaped, execLog, outcomes, mcpVars>>

\* the loop ran maxIterations times without a final answer
MaxIterationsReached ==
    /\ UNCHANGED <<opVars, appVars, runVars>>
    /\ pc = "loop" /\ ~LoopGuard(iteration)
    /\ Return([success |-> FALSE, error |-> "Reached maximum iterations",
               cause |-> "", response |-> "", iterations |-> maxIterations])
    /\ UNCHANGED <<iteration, messages, assistantMessage, toolIdx,
                   modelCalls, nextId, execLog, outcomes, mcpVars>>

(***************************************************************************)
(* GPT4MCPBridge.executeToolCall and its handlers.  outcome is what the    *)
(* Calendar Store call of the handler does.                                *)
(***************************************************************************)
\* try { getEvents ... } catch (error) { return {success:false, error} }
handleListEvents(args, outcome) ==
    IF outcome = "throw" THEN ToolResult(FALSE, "store error", "")
    ELSE ToolResult(TRUE, "", "")

\* success: result.success, message: Created / Failed
handleCreateEvent(args, outcome) ==
    CASE outcome = "throw" -> ToolResult(FALSE, "store error", "")
      [] outcome = "failure" -> ToolResult(FALSE, "", "Failed")
      [] OTHER -> ToolResult(TRUE, "", "Created")

\* a handler that does not look at result.success
handleDeleteEventIgnoringResult(args, outcome) == ToolResult(TRUE, "", "Deleted")

handleDeleteEvent(args, outcome) ==
    CASE outcome = "throw" -> ToolResult(FALSE, "store error", "")
      [] outcome = "failure" -> ToolResult(FALSE, "", "Failed")
      [] OTHER -> ToolResult(TRUE, "", "Deleted")

\* updates.title of a call without updates is a TypeError inside the try
handleUpdateEvent(args, outcome) ==
    CASE Get(args, "updates:").t = "u" -> ToolResult(FALSE, "TypeError", "")
      [] outcome = "throw" -> ToolResult(FALSE, "store error", "")
      [] outcome = "failure" -> ToolResult(FALSE, "", "Failed")
      [] OTHER -> ToolResult(TRUE, "", "Updated event")

handleSearchEvents(args, outcome) ==
    IF outcome = "throw" THEN ToolResult(FALSE, "store error", "")
    ELSE ToolResult(TRUE, "", "")

\* what executeToolCall does before its first await: JSON.parse of the
\* arguments string, then the switch on the name
executeToolCallEntry(toolCall) ==
    IF ~JSONParse(toolCall.function.arguments).ok THEN "SyntaxError"
    ELSE IF toolCall.function.name \notin validToolNames THEN "Unknown tool"
    ELSE "handler"

\* the handler's return value
executeToolCall(toolCall, outcome) ==
    LET args == JSONParse(toolCall.function.arguments).v
        name == toolCall.function.name
    IN CASE name = "list_calendar_events" -> handleListEvents(args, outcome)
         [] name = "create_calendar_event" -> handleCreateEvent(args, outcome)
         [] name = "delete_calendar_event" -> handleDeleteEvent(args, outcome)
         [] name = "update_calendar_event" -> handleUpdateEvent(args, outcome)
         [] name = "search_calendar_events" -> handleSearchEvents(args, outcome)

(***************************************************************************)
(* The for-of loop over assistantMessage.tool_calls.                       *)
(***************************************************************************)
toolCall == assistantMessage.tool_calls[toolIdx]

\* the id of the turn's first call for every tool turn of the turn
ToolCallIdOfFirst(call) == assistantMessage.tool_calls[1].id

\* tool_call_id: toolCall.id
ToolCallId(call) == call.id

\* the result of a call pushed as a turn of the assistant
ToolTurnAsAssistant(call, result) == Turn("assistant", "", <<>>, 0, <<result>>)

\* the tool turn pushed for a call
ToolTurn(call, result) == Turn("tool", "", <<>>, ToolCallId(call), <<result>>)

\* an iteration that steps over every second call
NextToolIdxSkipping(i) == i + 2

\* for (const toolCall of ...): the position after position i
NextToolIdx(i) == i + 1

\* the end of one pass of the for-of body: the next call, or `continue`
NextToolCall ==
    IF NextToolIdx(toolIdx) > Len(assistantMessage.tool_calls)
    THEN pc' = "loop" /\ toolIdx' = 0
    ELSE pc' = "tools" /\ toolIdx' = NextToolIdx(toolIdx)

\* executeToolCall throws `Unknown tool`: the inner catch pushes the error
\* turn and logs the call (its arguments parse), the loop goes on
ToolCallUnknown ==
    /\ UNCHANGED <<opVars, appVars, runVars>>
    /\ pc = "tools"
    /\ executeToolCallEntry(toolCall) = "Unknown tool"
    /\ messages' = Append(messages,
                          ToolTurn(toolCall, ToolResult(FALSE, "Unknown tool", "")))
    /\ execLog' = execLog \o <<[ev |-> "call", id |-> toolCall.id],
                               [ev |-> "throw", id |-> toolCall.id]>>
    /\ outcomes' = Append(outcomes, "none")
    /\ NextToolCall
    /\ UNCHANGED <<iteration, assistantMessage, returned, escaped, modelCalls,
                   nextId, mcpVars>>

\* JSON.parse(argsString) throws in executeToolCall: the inner catch pushes
\* the error turn, then evaluates JSON.parse(toolCall.function.arguments)
\* for debug.logToolExecution, which throws again, out of the inner catch
\* into the outer one: the run returns the API-error result
ToolCallBadArguments ==
    /\ UNCHANGED <<opVars, appVars, runVars>>
    /\ pc = "tools"
    /\ executeToolCallEntry(toolCall) = "SyntaxError"
    /\ messages' = Append(messages,
                          ToolTurn(toolCall, ToolResult(FALSE, "SyntaxError", "")))
    /\ execLog' = execLog \o <<[ev |-> "call", id |-> toolCall.id],
                               [ev |-> "throw", id |-> toolCall.id]>>
    /\ outcomes' = Append(outcomes, "none")
    /\ IF JSONParse(toolCall.function.arguments).ok
       THEN NextToolCall /\ UNCHANGED <<returned, escaped>>
       ELSE ThrowInIteration("SyntaxError", iteration) /\ UNCHANGED toolIdx
    /\ UNCHANGED <<iteration, assistantMessage, modelCalls, nextId, mcpVars>>

\* executeToolCall reaches a handler, which awaits the Calendar Store
ToolCallDispatch ==
    /\ UNCHANGED <<opVars, appVars, runVars>>
    /\ pc = "tools"
    /\ executeToolCallEntry(toolCall) = "handler"
    /\ execLog' = Append(execLog, [ev |-> "call", id |-> toolCall.id])
    /\ pc' = "await"
    /\ UNCHANGED <<iteration, messages, assistantMessage, toolIdx, returned,
                   escaped, modelCalls, nextId, outcomes, mcpVars>>

\* the Calendar Store call settles, the handler returns its result, the
\* tool turn is pushed and the call is logged
ToolCallReturns ==
    /\ UNCHANGED <<opVars, appVars, runVars>>
    /\ pc = "await"
    /\ \E outcome \in StoreOutcomes(toolCall.function.name) :
        /\ messages' = Append(messages,
                              ToolTurn(toolCall, executeToolCall(toolCall, outcome)))
        /\ outcomes' = Append(outcomes, outcome)
    /\ execLog' = Append(execLog, [ev |-> "return", id |-> toolCall.id])
    /\ NextToolCall
    /\ UNCHANGED <<iteration, assistantMessage, returned, escaped, modelCalls,
                   nextId, mcpVars>>

(***************************************************************************)
(* MCPLLMService.parseToolResponse                                         *)
(***************************************************************************)
\* positions of the text holding token tok
Positions(text, tok) == {j \in 1..Len(text) : text[j] = tok}

Min(S) == CHOOSE x \in S : \A y \in S : x <= y
Max(S) == CHOOSE x \in S : \A y \in S : y <= x

\* llmResponse.match(/\{[\s\S]*\}/): the regular expression is greedy, the
\* match runs from the first "{" to the last "}" behind it; <<>> is null
jsonMatch(text) ==
    LET opens == Positions(text, "{") IN
    IF opens = {} THEN <<>>
    ELSE LET closes == {j \in Positions(text, "}") : j > Min(opens)} IN
         IF closes = {} THEN <<>>
         ELSE SubSeq(text, Min(opens), Max(closes))

\* sequence s without its element at position i: toolCalls.splice(i, 1)
Splice(s, i) == SubSeq(s, 1, i - 1) \o SubSeq(s, i + 1, Len(s))

\* validToolNames.includes(toolCall.name)
IsValidToolName(v) == v.t = "s" /\ v.s \in validToolNames

\* reading a property of null or undefined is a TypeError
Nullish(v) == v.t = "u" \/ (v.t = "s" /\ v.s = "null")

\* the validation loop over result.toolCalls from position i on: calls
\* without name or arguments are skipped (continue), calls of an unknown
\* name are spliced out; thrown is the exception that ends the loop
RECURSIVE validateToolCalls(_, _)
validateToolCalls(toolCalls, i) ==
    IF i > Len(toolCalls) THEN [thrown |-> "", toolCalls |-> toolCalls]
    ELSE IF Nullish(toolCalls[i])
         THEN [thrown |-> "TypeError", toolCalls |-> toolCalls]
    ELSE IF Falsy(Get(toolCalls[i], "name:"))
            \/ Falsy(Get(toolCalls[i], "arguments:"))
         THEN validateToolCalls(toolCalls, i + 1)
    ELSE IF ~IsValidToolName(Get(toolCalls[i], "name:"))
         THEN validateToolCalls(Splice(toolCalls, i), i)
    ELSE validateToolCalls(toolCalls, i + 1)

\* parsed.intent || 'unknown'
\* a fallback of 'other' for a payload without intent
IntentOfDefaultOther(parsed) ==
    LET v == Get(parsed, "intent:") IN
    IF Falsy(v) THEN "other" ELSE IF v.t = "s" THEN v.s ELSE "[object]"

IntentOf(parsed) ==
    LET v == Get(parsed, "intent:") IN
    IF Falsy(v) THEN "unknown" ELSE IF v.t = "s" THEN v.s ELSE "[object]"

\* parsed.tool_calls || []
ToolCallsOf(parsed) ==
    LET v == Get(parsed, "tool_calls:") IN
    IF Falsy(v) THEN Array(<<>>) ELSE v

\* what parseToolResponse returns; thrown is the exception that leaves it
ParseResult(thrown, intent, toolCalls, text) ==
    [thrown |-> thrown, intent |-> intent, toolCalls |-> toolCalls,
     text |-> text]

\* the try block of parseToolResponse
parseToolResponseTry(text) ==
    LET jsonString == jsonMatch(text)
        parse == JSONParse(jsonString)
        toolCalls == ToolCallsOf(parse.v)
        \* result.toolCalls.length > 0: only an array has a length here
        valid == IF toolCalls.t = "a" /\ Len(toolCalls.m) > 0
                 THEN validateToolCalls(toolCalls.m, 1)
                 ELSE [thrown |-> "", toolCalls |-> toolCalls.m]
    IN IF jsonString = <<>>
       THEN ParseResult("", "other", Array(<<>>), text)
       ELSE IF ~parse.ok
       THEN ParseResult("SyntaxError", "", Array(<<>>), text)
       ELSE IF valid.thrown # ""
       THEN ParseResult(valid.thrown, "", Array(<<>>), text)
       ELSE ParseResult("", IntentOf(parse.v),
                        [toolCalls EXCEPT !.m = valid.toolCalls], text)

\* a catch that handles the SyntaxError of JSON.parse and rethrows the rest
CatchesSyntaxErrorOnly(exception) == exception = "SyntaxError"

\* catch (error): the clause has no filter, it catches every exception
Catches(exception) == TRUE

parseToolResponse(text) ==
    LET try == parseToolResponseTry(text) IN
    IF try.thrown = "" THEN try
    ELSE IF Catches(try.thrown)
    THEN ParseResult("", "other", Array(<<>>), text)
    ELSE try

(***************************************************************************)
(* CalendarMCPServer.handleRequest and its handlers.  A handler returns    *)
(* [thrown, value]: the exception it throws ("" for none) or its result.   *)
(***************************************************************************)
\* a tools/call result: content[0].text is JSON (data) or an error text;
\* error is the .error field of the entry pushed for a thrown executeTool
ContentResult(success, message) ==
    [error |-> "", content |-> TRUE, isError |-> FALSE, text |-> "",
     data |-> <<[success |-> success, message |-> message, events |-> -1]>>]

\* the result of list and search: success, count and the events (here
\* their number)
EventsResult(count) ==
    [error |-> "", content |-> TRUE, isError |-> FALSE, text |-> "",
     data |-> <<[success |-> TRUE, message |-> "", events |-> count]>>]
ErrorResult(message) ==
    [error |-> "", content |-> TRUE, isError |-> TRUE, text |-> message,
     data |-> <<>>]
ThrownResult(message) ==
    [error |-> message, content |-> FALSE, isError |-> FALSE, text |-> "",
     data |-> <<>>]

Throws(exception) == [thrown |-> exception, value |-> ErrorResult("")]
Returns(value) == [thrown |-> "", value |-> value]

\* the fields the tool's inputSchema lists as required
RequiredFields(name) ==
    CASE name = "list_calendar_events" -> {"start_date:", "end_date:"}
      [] name = "create_calendar_event" -> {"title:", "start_time:"}
      [] name = "update_calendar_event" -> {"event_identifier:", "updates:"}
      [] name = "delete_calendar_event" -> {"event_identifier:"}
      [] name = "search_calendar_events" -> {"query:"}
      [] OTHER -> {}

Missing(args, key) == Get(args, key).t = "u"

\* what the Calendar Store does for a handler: getEvents returns events
\* ("ok"), no event ("empty") or throws; the lookup of update and delete
\* finds the event or not ("not found"), the mutation then returns success
\* ("ok"), {success:false} ("failure") or throws
McpStoreOutcomes(name) ==
    CASE name \in {"list_calendar_events", "search_calendar_events"} ->
           {"ok", "empty", "throw"}
      [] name = "create_calendar_event" -> {"ok", "failure", "throw"}
      [] name \in {"update_calendar_event", "delete_calendar_event"} ->
           {"ok", "failure", "throw", "not found"}
      [] OTHER -> {"none"}

\* destructuring args, then parseDateTime(start_date) and
\* parseDateTime(end_date): dateStr.toLowerCase() of undefined throws
serverHandleListEvents(args, outcome) ==
    CASE Nullish(args) -> Throws("TypeError")
      [] Missing(args, "start_date:") \/ Missing(args, "end_date:") ->
           Throws("TypeError")
      [] outcome = "throw" -> Throws("store error")
      [] OTHER -> Returns(EventsResult(IF outcome = "empty" THEN 0 ELSE 1))

\* extractDate / extractTime of an undefined start_time do not throw:
\* createEvent is called whatever fields the arguments hold
serverHandleCreateEvent(args, outcome) ==
    CASE Nullish(args) -> Throws("TypeError")
      [] outcome = "throw" -> Throws("store error")
      [] outcome = "failure" -> Returns(ContentResult(FALSE, "Failed"))
      [] OTHER -> Returns(ContentResult(TRUE, "Event created"))

\* findEventByIdentifier, then updates.title, then updateEvent
serverHandleUpdateEvent(args, outcome) ==
    CASE Nullish(args) -> Throws("TypeError")
      [] outcome = "throw" -> Throws("store error")
      [] outcome = "not found" -> Throws("Event not found")
      [] Missing(args, "event_identifier:") -> Throws("TypeError")
      [] Nullish(Get(args, "updates:")) -> Throws("TypeError")
      [] outcome = "failure" -> Returns(ContentResult(FALSE, "Failed"))
      [] OTHER -> Returns(ContentResult(TRUE, "Event updated"))

\* const { event_identifier, confirmation = true } = args: the default
\* stands in for an undefined confirmation only
confirmationOf(args) ==
    LET v == Get(args, "confirmation:") IN
    IF v.t = "u" THEN Scalar("true") ELSE v

\* a handler that deletes whatever the confirmation says
serverHandleDeleteEventUnconfirmed(args, outcome) ==
    CASE Nullish(args) -> Throws("TypeError")
      [] outcome = "throw" -> Throws("store error")
      [] outcome = "not found" -> Throws("Event not found")
      [] Missing(args, "event_identifier:") -> Throws("TypeError")
      [] outcome = "failure" -> Returns(ContentResult(FALSE, "Failed"))
      [] OTHER -> Returns(ContentResult(TRUE, "Event deleted"))

\* if (!confirmation) throw, then findEventByIdentifier, then deleteEvent
serverHandleDeleteEvent(args, outcome) ==
    CASE Nullish(args) -> Throws("TypeError")
      [] Falsy(confirmationOf(args)) ->
           Throws("Event deletion requires confirmation")
      [] outcome = "throw" -> Throws("store error")
      [] outcome = "not found" -> Throws("Event not found")
      [] Missing(args, "event_identifier:") -> Throws("TypeError")
      [] outcome = "failure" -> Returns(ContentResult(FALSE, "Failed"))
      [] OTHER -> Returns(ContentResult(TRUE, "Event deleted"))

\* getEvents, then the filter: query.toLowerCase() of an undefined query
\* throws as soon as one event has a summary
serverHandleSearchEvents(args, outcome) ==
    CASE Nullish(args) -> Throws("TypeError")
      [] outcome = "throw" -> Throws("store error")
      [] outcome = "ok" /\ Missing(args, "query:") -> Throws("TypeError")
      [] OTHER -> Returns(EventsResult(IF outcome = "empty" THEN 0 ELSE 1))

\* the name a call dispatches on: "" stands for a name that is no string
\* of the catalog's kind (undefined, null, an object)
NameOf(call) ==
    LET v == Get(call, "name:") IN IF v.t = "s" THEN v.s ELSE ""

\* the switch of handleRequest on the name of the tool
dispatchTool(call, outcome) ==
    LET name == NameOf(call)
        args == Get(call, "arguments:")
    IN CASE name = "list_calendar_events" -> serverHandleListEvents(args, outcome)
         [] name = "create_calendar_event" -> serverHandleCreateEvent(args, outcome)
         [] name = "update_calendar_event" -> serverHandleUpdateEvent(args, outcome)
         [] name = "delete_calendar_event" -> serverHandleDeleteEvent(args, outcome)
         [] name = "search_calendar_events" -> serverHandleSearchEvents(args, outcome)
         [] OTHER -> Throws("Unknown tool")

\* a handleRequest without its try / catch
handleRequestWithoutCatch(call, outcome) == dispatchTool(call, outcome)

\* handleRequest({method: 'tools/call', params}): the switch on the name
\* inside try, every exception turned into an isError result
handleRequest(call, outcome) ==
    LET handled == dispatchTool(call, outcome)
    IN IF handled.thrown # "" THEN Returns(ErrorResult(handled.thrown))
       ELSE handled

\* the Calendar Store operations the handler of a call reaches, in order:
\* the lookup of update and delete (findEventByIdentifier) comes first and
\* the mutation follows only when the lookup found an event
serverStoreCalls(call, outcome) ==
    LET name == NameOf(call)
        args == Get(call, "arguments:")
    IN CASE outcome = "rejects" -> <<>>
         [] Nullish(args) \/ name \notin validToolNames -> <<>>
         [] name = "list_calendar_events" ->
              IF Missing(args, "start_date:") \/ Missing(args, "end_date:")
              THEN <<>> ELSE <<"getEvents">>
         [] name = "create_calendar_event" -> <<"createEvent">>
         [] name = "search_calendar_events" -> <<"getEvents">>
         [] name = "update_calendar_event" ->
              IF outcome \in {"throw", "not found"}
                 \/ Missing(args, "event_identifier:")
                 \/ Nullish(Get(args, "updates:"))
              THEN <<"findEventByIdentifier">>
              ELSE <<"findEventByIdentifier", "updateEvent">>
         [] name = "delete_calendar_event" ->
              IF Falsy(confirmationOf(args)) THEN <<>>
              ELSE IF outcome \in {"throw", "not found"}
                 \/ Missing(args, "event_identifier:")
              THEN <<"findEventByIdentifier">>
              ELSE <<"findEventByIdentifier", "deleteEvent">>

\* MCPLLMService.executeTool: the request, its exception thrown on.  The
\* server is the one setMCPServer was given: the request of
\* CalendarMCPServer resolves with what handleRequest returns, the request
\* of a server that cannot be reached rejects
executeTool(call, outcome) ==
    IF outcome = "rejects" THEN Throws("request rejected")
    ELSE handleRequest(call, outcome)

(***************************************************************************)
(* The model outputs processEventMessage is run on.                        *)
(***************************************************************************)
\* {"name": name, "arguments": args}
PayloadCall(name, args) ==
    <<"{", "name:", name, ",", "arguments:">> \o args \o <<"}">>

\* the entries a tool_calls array is built from
PayloadCalls ==
    {PayloadCall("create_calendar_event",
                 <<"{", "title:", "value", ",", "start_time:", "value", "}">>),
     PayloadCall("create_calendar_event", <<"{", "title:", "value", "}">>),
     PayloadCall("list_calendar_events",
                 <<"{", "start_date:", "value", ",", "end_date:", "value", "}">>),
     PayloadCall("update_calendar_event",
                 <<"{", "event_identifier:", "value", ",",
                   "updates:", "{", "title:", "value", "}", "}">>),
     PayloadCall("delete_calendar_event",
                 <<"{", "event_identifier:", "value", "}">>),
     PayloadCall("search_calendar_events", <<"{", "query:", "value", "}">>),
     PayloadCall(UnknownToolName, <<"{", "}">>),
     <<"{", "name:", UnknownToolName, "}">>,
     <<"null">>}

\* the entries joined by commas
RECURSIVE Joined(_)
Joined(entries) ==
    IF Len(entries) = 0 THEN <<>>
    ELSE IF Len(entries) = 1 THEN entries[1]
    ELSE entries[1] \o <<",">> \o Joined(Tail(entries))

\* {"intent": "create_event", "tool_calls": [entries]}
Payload(entries) ==
    <<"{", "intent:", "create_event", ",", "tool_calls:", "[">>
    \o Joined(entries) \o <<"]", "}">>

Payloads ==
    {Payload(entries) :
        entries \in UNION {[1..n -> PayloadCalls] : n \in 0..MaxPayloadCalls}}
    \cup {<<"{", "intent:", "create_event", "}">>,
          <<"{", "tool_calls:", "null", "}">>,
          <<"{", "intent:", "", ",", "tool_calls:", "{", "}", "}">>,
          <<"{", "}">>}

\* the text around the payload: nothing, prose, prose with braces behind it
Surroundings ==
    {[before |-> <<>>, after |-> <<>>],
     [before |-> <<"prose">>, after |-> <<"prose">>],
     [before |-> <<>>, after |-> <<"prose", "{", "prose", "}">>]}

\* outputs without a JSON object, and outputs whose payload is malformed
OtherOutputs ==
    {<<>>, <<"prose">>, <<"prose", "{", "prose">>, <<"}", "prose", "{">>,
     <<"{", "prose", "}">>,
     <<"{", "intent:", "create_event", ",", "}">>,
     <<"{", "intent:", "create_event", ",", "tool_calls:", "[", "{", "}">>,
     <<"{", "intent:", "create_event", "}", "}">>}

ModelOutputs ==
    {x.before \o payload \o x.after : x \in Surroundings, payload \in Payloads}
    \cup OtherOutputs

(***************************************************************************)
(* MCPLLMService.processEventMessage                                       *)
(***************************************************************************)
NoResponse == ParseResult("", "", Array(<<>>), <<>>)

InitMCP ==
    /\ mpc = "generate"
    /\ llmResponse \in ModelOutputs
    /\ response = NoResponse
    /\ callIdx = 0
    /\ toolResults = <<>>
    /\ executed = <<>>
    /\ processed = <<>>
    /\ attempt = 1
    /\ delays = <<>>
    /\ storeCalls = <<>>

\* one line of the reply: its leading mark and its text
Line(mark, text) == [mark |-> mark, text |-> text]

\* the body of the for-of loop of formatResponse: the lines pushed for one
\* result; none for a result without error text and without content.
\* JSON.parse of the text of an isError result throws, and the
\* catch pushes the line "Operation completed"
formatResult(intent, result) ==
    IF result.error # "" THEN <<Line("error", "Error: ")>>
    ELSE IF ~result.content THEN <<>>
    ELSE IF result.data = <<>> THEN <<Line("success", "Operation completed")>>
    ELSE IF ~result.data[1].success THEN <<Line("error", result.data[1].message)>>
    ELSE CASE intent = "create_event" -> <<Line("success", "Event created: ")>>
           [] intent = "edit_event" -> <<Line("success", "Event updated: ")>>
           [] intent = "delete_event" -> <<Line("success", "Event deleted: ")>>
           [] intent = "query_events" ->
                IF result.data[1].events > 0
                THEN <<Line("events", "Found event(s)")>>
                ELSE <<Line("events", "No events found")>>
           [] OTHER -> <<Line("success", result.data[1].message)>>

RECURSIVE formatLines(_, _, _)
formatLines(intent, results, i) ==
    IF i > Len(results) THEN <<>>
    ELSE formatResult(intent, results[i]) \o formatLines(intent, results, i + 1)

\* a formatResponse without the `|| "Operation completed."` of its return
formatResponseJoinOnly(intent, results) ==
    IF Len(results) = 0 THEN <<Line("", "I couldn't process your request.")>>
    ELSE formatLines(intent, results, 1)

\* formatResponse(intent, toolResults): the lines of the reply, joined by
\* newlines in the code; an empty list of results, and an empty join, give
\* a generic line
formatResponse(intent, results) ==
    IF Len(results) = 0 THEN <<Line("", "I couldn't process your request.")>>
    ELSE IF formatLines(intent, results, 1) = <<>>
    THEN <<Line("", "Operation completed.")>>
    ELSE formatLines(intent, results, 1)

\* response.toolCalls && response.toolCalls.length > 0
HasToolCalls(r) == r.toolCalls.t = "a" /\ Len(r.toolCalls.m) > 0

\* the return value of processEventMessage; thrown is the exception that
\* leaves it instead
Processed(thrown, flag, intent, message) ==
    [thrown |-> thrown, processed |-> flag, intent |-> intent,
     message |-> message, toolCalls |-> response'.toolCalls.m,
     toolResults |-> toolResults']

\* config.llm.maxRetries: parseInt(process.env.LLM_MAX_RETRIES) || 3
maxRetries == 3

\* a pause of one second behind every failed attempt
BackoffFlat(n) == 1000

\* await new Promise(resolve => setTimeout(resolve, 1000 * attempt))
Backoff(n) == 1000 * n

\* axios.post rejects (network, HTTP error, timeout): the catch of
\* generateResponseWithTools waits and the loop tries again; after the last
\* attempt it throws, and the exception leaves processEventMessage
LLMAttemptFails ==
    /\ UNCHANGED <<opVars, appVars, runVars>>
    /\ mpc = "generate"
    /\ UNCHANGED <<llmResponse, response, callIdx, toolResults, executed,
                   storeCalls, outcomes, bridgeVars>>
    /\ IF attempt = maxRetries
       THEN /\ processed' = <<Processed("All LLM attempts failed", FALSE, "",
                                         <<>>)>>
            /\ mpc' = "done"
            /\ UNCHANGED <<attempt, delays>>
       ELSE /\ delays' = Append(delays, Backoff(attempt))
            /\ attempt' = attempt + 1
            /\ UNCHANGED <<mpc, processed>>

\* axios.post resolves: generateResponseWithTools returns
\* parseToolResponse(text); without tool calls processEventMessage returns
\* at once
GenerateResponse ==
    /\ UNCHANGED <<opVars, appVars, runVars>>
    /\ mpc = "generate"
    /\ response' = parseToolResponse(llmResponse)
    /\ UNCHANGED <<llmResponse, toolResults, executed, attempt, delays,
                   storeCalls, outcomes, bridgeVars>>
    /\ IF response'.thrown # ""
       THEN /\ processed' = <<Processed(response'.thrown, FALSE, "", <<>>)>>
            /\ mpc' = "done" /\ callIdx' = 0
       ELSE IF HasToolCalls(response')
       THEN mpc' = "tools" /\ callIdx' = 1 /\ UNCHANGED processed
       ELSE /\ processed' = <<Processed("", FALSE, response'.intent,
                                         response'.text)>>
            /\ mpc' = "done" /\ callIdx' = 0

\* a loop that leaves out every other call
NextCallIdxSkipping(j) == j + 2

\* for (let i = 0; ...; i++): the position after position j
NextCallIdx(j) == j + 1

\* const result = await this.executeTool(toolCall)
ExecuteToolStart ==
    /\ UNCHANGED <<opVars, appVars, runVars>>
    /\ mpc = "tools"
    /\ executed' = Append(executed, response.toolCalls.m[callIdx])
    /\ mpc' = "await"
    /\ UNCHANGED <<llmResponse, response, callIdx, toolResults, processed,
                   attempt, delays, storeCalls, outcomes, bridgeVars>>

\* the request settles: the result (or the {error} entry of a thrown call)
\* is pushed; behind the last call processEventMessage returns
ExecuteToolSettles ==
    /\ UNCHANGED <<opVars, appVars, runVars>>
    /\ mpc = "await"
    /\ \E outcome \in McpStoreOutcomes(NameOf(response.toolCalls.m[callIdx]))
                      \cup {"rejects"} :
        LET done == executeTool(response.toolCalls.m[callIdx], outcome) IN
        /\ toolResults' = Append(toolResults,
                                 IF done.thrown # "" THEN ThrownResult(done.thrown)
                                 ELSE done.value)
        /\ outcomes' = Append(outcomes, outcome)
        /\ storeCalls' = Append(storeCalls,
                                serverStoreCalls(response.toolCalls.m[callIdx],
                                                 outcome))
    /\ UNCHANGED <<llmResponse, response, executed, attempt, delays,
                   bridgeVars>>
    /\ IF NextCallIdx(callIdx) > Len(response.toolCalls.m)
       THEN /\ processed' = <<Processed("", TRUE, response.intent,
                                         formatResponse(response.intent,
                                                        toolResults'))>>
            /\ mpc' = "done" /\ callIdx' = 0
       ELSE mpc' = "tools" /\ callIdx' = NextCallIdx(callIdx) /\ UNCHANGED processed

\* the entry processEventMessage pushes for call i of the parsed response
ResultOfCall(i) ==
    LET done == executeTool(response.toolCalls.m[i], outcomes[i]) IN
    IF outcomes[i] = "rejects" THEN [error |-> "request rejected",
                                     content |-> FALSE, isError |-> FALSE,
                                     text |-> "", data |-> <<>>]
    ELSE done.value

\* C32: processEventMessage returns exactly one result per tool call of the
\* parsed response, result i belonging to call i; a call that throws
\* contributes an {error} entry and does not prevent the calls behind it
C32_OneResultPerCall ==
    /\ Len(toolResults) <= Len(response.toolCalls.m)
    /\ \A i \in 1..Len(toolResults) :
          /\ executed[i] = response.toolCalls.m[i]
          /\ toolResults[i] = ResultOfCall(i)
    /\ (mpc = "done" /\ processed[1].thrown = "" /\ processed[1].processed) =>
          /\ Len(processed[1].toolResults) = Len(response.toolCalls.m)
          /\ processed[1].toolResults = toolResults
          /\ executed = response.toolCalls.m

\* the first of two calls threw, the second was executed all the same
C32_Witness ==
    /\ mpc = "done" /\ processed[1].processed
    /\ Len(response.toolCalls.m) = 2
    /\ outcomes = <<"rejects", "ok">>
    /\ toolResults[1].error # "" /\ toolResults[2].error = ""
    /\ toolResults[2].data # <<>>

(***************************************************************************)
(* One message is processed: by the GPT-4 bridge, or by the MCP service.   *)
(***************************************************************************)
IdleBridge ==
    /\ pc = "idle"
    /\ iteration = 0
    /\ messages = <<>>
    /\ assistantMessage = NoMessage
    /\ toolIdx = 0
    /\ returned = <<>>
    /\ escaped = FALSE
    /\ modelCalls = 0
    /\ nextId = 1
    /\ execLog = <<>>

IdleMCP ==
    /\ mpc = "idle"
    /\ llmResponse = <<>>
    /\ response = NoResponse
    /\ callIdx = 0
    /\ toolResults = <<>>
    /\ executed = <<>>
    /\ processed = <<>>
    /\ attempt = 0
    /\ delays = <<>>
    /\ storeCalls = <<>>

\* no operation of the tool layer is applied on its own
NoOp == [fn |-> "none"]

\* the event keys generateEventKey gives the messages
EventKeys == {"a", "b"}

\* no message has been received
IdleApp ==
    /\ tasks = <<>>
    /\ queue = <<>>
    /\ activeCount = 0
    /\ recentEvents = {}
    /\ timers = [k \in EventKeys |-> 0]
    /\ created = [k \in EventKeys |-> 0]
    /\ stats = [messagesProcessed |-> 0, eventsDetected |-> 0,
                eventsCreated |-> 0]
    /\ runs = <<>>
    /\ conversations = <<>>

Init ==
    /\ outcomes = <<>>
    /\ op = NoOp /\ out = <<>>
    /\ IdleApp
    /\ \/ InitBridge /\ IdleMCP
       \/ IdleBridge /\ InitMCP

BridgeNext ==
    \/ ModelCallFails
    \/ ModelAnswers
    \/ ModelRequestsTools
    \/ MaxIterationsReached
    \/ ToolCallUnknown
    \/ ToolCallBadArguments
    \/ ToolCallDispatch
    \/ ToolCallReturns

MCPNext ==
    \/ LLMAttemptFails
    \/ GenerateResponse
    \/ ExecuteToolStart
    \/ ExecuteToolSettles

Next == BridgeNext \/ MCPNext

Spec == Init /\ [][Next]_vars

(***************************************************************************)
(* Properties.                                                             *)
(***************************************************************************)
\* positions of the conversation holding a turn of the role
TurnsOf(role) == {p \in 1..Len(messages) : messages[p].role = role}

\* the ids of the tool calls of the assistant turns, in conversation order
RECURSIVE EmittedIds(_)
EmittedIds(p) ==
    IF p > Len(messages) THEN <<>>
    ELSE [j \in 1..Len(messages[p].tool_calls) |-> messages[p].tool_calls[j].id]
         \o EmittedIds(p + 1)

\* the ids of the events of execLog that are (not) calls, in order
RECURSIVE LogIds(_, _)
LogIds(p, calls) ==
    IF p > Len(execLog) THEN <<>>
    ELSE (IF (execLog[p].ev = "call") = calls THEN <<execLog[p].id>> ELSE <<>>)
         \o LogIds(p + 1, calls)

\* the tool_call_ids of the tool turns, in conversation order
RECURSIVE ToolTurnIds(_)
ToolTurnIds(p) ==
    IF p > Len(messages) THEN <<>>
    ELSE (IF messages[p].role = "tool" THEN <<messages[p].tool_call_id>> ELSE <<>>)
         \o ToolTurnIds(p + 1)

\* the tool turns' results, in conversation order
RECURSIVE ToolTurnResults(_)
ToolTurnResults(p) ==
    IF p > Len(messages) THEN <<>>
    ELSE (IF messages[p].role = "tool" THEN messages[p].result ELSE <<>>)
         \o ToolTurnResults(p + 1)

IsPrefix(s, t) == Len(s) <= Len(t) /\ s = SubSeq(t, 1, Len(s))

\* steps a processMessage run can still take: one model call and two
\* steps for each tool call of every iteration left, and the return
Measure ==
    CASE pc \in {"idle", "done"} -> 0
      [] pc = "loop" ->
           (maxIterations - iteration) * (2 * MaxToolCalls + 1) + 1
      [] pc = "tools" ->
           (maxIterations - iteration) * (2 * MaxToolCalls + 1) + 1
           + 2 * (Len(assistantMessage.tool_calls) - toolIdx + 1)
      [] pc = "await" ->
           (maxIterations - iteration) * (2 * MaxToolCalls + 1) + 1
           + 2 * (Len(assistantMessage.tool_calls) - toolIdx) + 1

\* C1: whatever the model answers, one processMessage run makes at most
\* maxIterations model calls, and so at most maxIterations + 1, and it
\* terminates: a run that has not returned can always take a step, and
\* every step lowers the number of steps left, which never falls below zero.
C1_BoundedModelCalls ==
    /\ [](modelCalls <= maxIterations /\ modelCalls <= maxIterations + 1)
    /\ [](Measure \in Nat)
    /\ [](pc \in {"idle", "done"} \/ ENABLED BridgeNext)
    /\ [][pc # "idle" => Measure' < Measure]_vars

\* a run in which every model call was answered with tool calls, up to the
\* ceiling
AlwaysRequestedTools ==
    /\ pc = "done"
    /\ modelCalls = maxIterations
    /\ \A p \in TurnsOf("assistant") : messages[p].tool_calls # <<>>
    /\ Cardinality(TurnsOf("assistant")) = maxIterations

C1_Witness ==
    /\ AlwaysRequestedTools
    /\ returned # <<>>
    /\ returned[1].error = "Reached maximum iterations"

\* C2: a run whose every iteration up to the ceiling was answered with
\* tool calls returns the maximum-iterations failure (success false,
\* iterations = maxIterations) and no exception leaves processMessage.
C2_MaxIterationsResult ==
    AlwaysRequestedTools =>
        /\ ~escaped
        /\ returned = <<[success |-> FALSE,
                         error |-> "Reached maximum iterations",
                         cause |-> "", response |-> "",
                         iterations |-> maxIterations]>>

\* C3: tool calls run one at a time in the order emitted.  Bridge: a call
\* entered is left before the next is entered, the calls entered are the
\* first of the calls emitted, in that order, all of them once the for-of
\* loop is left, and the tool turns follow the order the calls were left
\* in.  MCP service: the calls handed to executeTool are the first of
\* response.toolCalls in order, all of them at the return, at most one is
\* awaited, and toolResults holds one result for each call left.
C3_SequentialInOrder ==
    /\ \A p \in 1..Len(execLog) - 1 :
          IF execLog[p].ev = "call"
          THEN execLog[p + 1].ev # "call" /\ execLog[p + 1].id = execLog[p].id
          ELSE execLog[p + 1].ev = "call"
    /\ IsPrefix(LogIds(1, TRUE), EmittedIds(1))
    /\ pc = "loop" => LogIds(1, TRUE) = EmittedIds(1)
    /\ ToolTurnIds(1) = LogIds(1, FALSE)
    /\ IsPrefix(executed, response.toolCalls.m)
    /\ mpc = "done" /\ HasToolCalls(response) => executed = response.toolCalls.m
    /\ Len(toolResults) = Len(executed) - (IF mpc = "await" THEN 1 ELSE 0)

\* search and delete emitted in one assistant turn were run in that order,
\* and so were two calls of one parsed response
C3_Witness ==
    \/ /\ pc = "loop"
       /\ Len(messages) = 5
       /\ Len(messages[3].tool_calls) = 2
       /\ messages[3].tool_calls[1].function.name = "search_calendar_events"
       /\ messages[3].tool_calls[2].function.name = "delete_calendar_event"
       /\ ToolTurnIds(1) = <<1, 2>>
       /\ LogIds(1, TRUE) = <<1, 2>>
    \/ /\ mpc = "done"
       /\ Len(executed) = 2
       /\ NameOf(executed[1]) = "search_calendar_events"
       /\ NameOf(executed[2]) = "delete_calendar_event"
       /\ Len(toolResults) = 2

\* C4: every tool turn answers exactly one tool call of an earlier
\* assistant turn, and no tool call is answered by two tool turns.
C4_ToolTurnMatchesOneCall ==
    /\ \A p \in TurnsOf("tool") :
          Cardinality({<<q, j>> \in (1..(p - 1)) \X (1..MaxToolCalls) :
                          /\ messages[q].role = "assistant"
                          /\ j <= Len(messages[q].tool_calls)
                          /\ messages[q].tool_calls[j].id
                               = messages[p].tool_call_id}) = 1
    /\ \A p, q \in TurnsOf("tool") :
          messages[p].tool_call_id = messages[q].tool_call_id => p = q

\* two tool turns answer the two calls of one assistant turn
C4_Witness ==
    /\ Cardinality(TurnsOf("tool")) = 2
    /\ Cardinality(TurnsOf("assistant")) = 1
    /\ Len(messages[3].tool_calls) = 2
    /\ messages[4].tool_call_id # messages[5].tool_call_id

\* C5: no tool call whose name is outside the catalog is handed to the
\* executor.
C5_UnknownNeverExecuted ==
    \A k \in 1..Len(executed) : IsValidToolName(Get(executed[k], "name:"))

\* C6: every tool call handed to the executor carries the required fields
\* of its tool's schema.
C6_RequiredFieldsPresent ==
    \A k \in 1..Len(executed) :
        IsValidToolName(Get(executed[k], "name:")) =>
            \A key \in RequiredFields(NameOf(executed[k])) :
                ~Missing(Get(executed[k], "arguments:"), key)

\* C7: a tool call with malformed arguments is a per-call failure: the run
\* never returns the API-error result because of it, and once the for-of
\* loop is left every tool call emitted has its tool turn.
C7_BadArgumentsRecoverable ==
    /\ returned # <<>> => returned[1].cause # "SyntaxError"
    /\ pc \in {"loop", "done"} => Len(ToolTurnIds(1)) = Len(EmittedIds(1))

\* C8: parseToolResponse never throws, and for a text without JSON object
\* or with a malformed payload it returns intent "other", no tool calls and
\* the text (it is applied to every text the model returned; when every
\* attempt failed there is no text).
C8_ParseNeverThrows ==
    (/\ mpc \in {"tools", "await", "done"}
     /\ ~(processed # <<>> /\ processed[1].thrown = "All LLM attempts failed")) =>
        /\ response.thrown = ""
        /\ (jsonMatch(llmResponse) = <<>>
            \/ ~JSONParse(jsonMatch(llmResponse)).ok) =>
               /\ response.intent = "other"
               /\ response.toolCalls = Array(<<>>)
               /\ response.text = llmResponse

\* a payload that parses and then breaks the validation loop (a null
\* entry), degraded to "other"
C8_Witness ==
    /\ mpc = "done"
    /\ JSONParse(jsonMatch(llmResponse)).ok
    /\ parseToolResponseTry(llmResponse).thrown = "TypeError"
    /\ response.thrown = ""
    /\ response.intent = "other"
    /\ processed # <<>>
    /\ processed[1].thrown = ""

\* the end of the first balanced {...} span of the text from position p
\* on, depth braces being open; 0 when there is none
RECURSIVE BalancedEnd(_, _, _)
BalancedEnd(text, p, depth) ==
    IF p > Len(text) THEN 0
    ELSE IF text[p] = "{" THEN BalancedEnd(text, p + 1, depth + 1)
    ELSE IF text[p] = "}" /\ depth = 1 THEN p
    ELSE IF text[p] = "}" /\ depth > 1 THEN BalancedEnd(text, p + 1, depth - 1)
    ELSE BalancedEnd(text, p + 1, depth)

\* the text up to the end of its first balanced span
UpToFirstBalanced(text) ==
    IF BalancedEnd(text, 1, 0) = 0 THEN text
    ELSE SubSeq(text, 1, BalancedEnd(text, 1, 0))

\* C9: the text behind the first balanced {...} span does not change the
\* parsed intent and tool calls.
C9_FirstBalancedSpan ==
    mpc \in {"tools", "await", "done"} =>
        LET cut == parseToolResponse(UpToFirstBalanced(llmResponse)) IN
        /\ response.intent = cut.intent
        /\ response.toolCalls = cut.toolCalls

\* C10: a Calendar Store error inside a handler comes back as a tool
\* result with success:false.
C10_StoreErrorIsFailureResult ==
    /\ pc # "idle" =>
          \A k \in 1..Len(outcomes) :
              outcomes[k] = "throw" /\ k <= Len(ToolTurnResults(1)) =>
                  ToolTurnResults(1)[k].success = FALSE
    /\ mpc # "idle" =>
          \A k \in 1..Len(toolResults) :
              outcomes[k] = "throw" =>
                  /\ toolResults[k].error = ""
                  /\ toolResults[k].data # <<>>
                  /\ toolResults[k].data[1].success = FALSE

\* deleteEvent returned {success:false, error} for the call awaited
DeleteEventFails ==
    /\ pc = "await"
    /\ toolCall.function.name = "delete_calendar_event"
    /\ outcomes' = Append(outcomes, "failure")

\* C11: a deleteEvent that returns {success:false, error} does not end the
\* run: the step pushes the call's tool turn holding the failure and goes
\* on with the for-of loop or the while loop, nothing is returned or
\* thrown; a model call only adds to the conversation, so the next one is
\* made with that turn in it; and iteration never passes maxIterations.
C11_DeleteFailureAbsorbed ==
    /\ [][DeleteEventFails =>
            /\ pc' \in {"tools", "loop"}
            /\ returned' = <<>> /\ ~escaped'
            /\ messages' = Append(messages,
                                  ToolTurn(toolCall,
                                           ToolResult(FALSE, "", "Failed")))]_vars
    /\ [][modelCalls' # modelCalls => IsPrefix(messages, messages')]_vars
    /\ [](iteration <= maxIterations)

\* the second model call was made with the failed delete's turn in the
\* conversation
C11_Witness ==
    /\ modelCalls = 2
    /\ Len(messages) >= 5
    /\ messages[3].tool_calls[1].function.name = "delete_calendar_event"
    /\ messages[4].role = "tool"
    /\ messages[4].result = <<ToolResult(FALSE, "", "Failed")>>
    /\ messages[5].role = "assistant"
    /\ outcomes[1] = "failure"

\* model calls of the bridge that failed: every other one pushed its
\* assistant turn
FailedModelCalls == modelCalls - Cardinality(TurnsOf("assistant"))

\* C12: a failure to reach the model is reported as a failed run only
\* after the call was retried: the bridge's API-error result for a failed
\* request follows at least two failed model calls, and the MCP service
\* gives up only after maxRetries attempts with the delays 1000, 2000, ...
\* between them.
C12_FailureRetried ==
    /\ (returned # <<>> /\ returned[1].cause = "request failed") =>
          FailedModelCalls >= 2
    /\ (processed # <<>> /\ processed[1].thrown = "All LLM attempts failed") =>
          /\ attempt = maxRetries
          /\ attempt >= 2
          /\ delays = [k \in 1..(maxRetries - 1) |-> 1000 * k]

\* the turn at position p is an assistant turn without tool calls
AnsweredAt(p) == messages[p].role = "assistant" /\ messages[p].tool_calls = <<>>

\* the run completed with the turn at position p: nothing follows the
\* turn, no model call failed, processMessage returned success with the
\* response text
CompletedWith(p, text) ==
    /\ p = Len(messages)
    /\ pc = "done" /\ ~escaped
    /\ FailedModelCalls = 0
    /\ returned = <<[success |-> TRUE, error |-> "", cause |-> "",
                     response |-> text, iterations |-> iteration]>>

\* C13 (as stated): an assistant turn without tool calls completes the run
\* at once, the response being the assistant's free text.
C13_CompleteWithFreeText ==
    \A p \in 1..Len(messages) :
        AnsweredAt(p) => CompletedWith(p, messages[p].content)

\* C13 (amended): an assistant turn without tool calls completes the run
\* at once; the response is the assistant's free text when there is some,
\* and the text "Task completed successfully." when the content is empty.
C13_CompleteWithTextOrDefault ==
    \A p \in 1..Len(messages) :
        AnsweredAt(p) =>
            CompletedWith(p, IF messages[p].content = ""
                             THEN "Task completed successfully."
                             ELSE messages[p].content)

\* after a tool iteration the model answered with free text, which is the
\* response
C13_Witness ==
    /\ pc = "done"
    /\ Len(messages) = 5
    /\ messages[4].role = "tool"
    /\ AnsweredAt(5)
    /\ messages[5].content = "final answer"
    /\ returned[1].success /\ returned[1].response = "final answer"
    /\ modelCalls = 2

\* processEventMessage returned for a model output without tool calls
ReturnedWithoutToolCalls ==
    /\ mpc = "done"
    /\ processed # <<>> /\ processed[1].thrown = ""
    /\ ~HasToolCalls(response)

\* the intent a text declares: that of its JSON object, 'unknown' when the
\* object has none, "other" when the text holds no object that parses and
\* passes the validation loop
DeclaredIntent(text) ==
    LET parse == JSONParse(jsonMatch(text))
        v == Get(parse.v, "intent:")
    IN IF jsonMatch(text) = <<>> \/ ~parse.ok
          \/ parseToolResponseTry(text).thrown # ""
       THEN "other"
       ELSE IF v.t = "u" \/ (v.t = "s" /\ v.s \in {"", "null"}) THEN "unknown"
       ELSE v.s

NotFoundCalls ==
    {k \in 1..Len(toolResults) :
        /\ NameOf(executed[k]) \in {"update_calendar_event",
                                    "delete_calendar_event"}
        /\ ~Nullish(Get(executed[k], "arguments:"))
        /\ outcomes[k] = "not found"}

\* C15: an update or delete whose identifier matches no event comes back
\* as the isError result "Event not found", nothing is thrown to the caller
\* of the tool server, and updateEvent / deleteEvent is not called.
C15_NotFoundIsToolError ==
    mpc # "idle" =>
        \A k \in NotFoundCalls :
            /\ toolResults[k] = ErrorResult("Event not found")
            /\ toolResults[k].error = ""
            /\ storeCalls[k] = <<"findEventByIdentifier">>

\* a delete and an update that matched no event, both settled
C15_Witness ==
    /\ mpc = "done"
    /\ Len(toolResults) = 2
    /\ NotFoundCalls = {1, 2}
    /\ NameOf(executed[1]) = "delete_calendar_event"
    /\ NameOf(executed[2]) = "update_calendar_event"
    /\ toolResults[1].isError /\ toolResults[2].isError

(***************************************************************************)
(* SpecApp: WhatsAppSecretary receives messages and processes them behind  *)
(* calendarLimit = pLimit(maxConcurrentCalendarOps).                       *)
(***************************************************************************)
\* most messages received
MaxMessages == 3

\* config.processing.maxConcurrentCalendarOps, the positive number
\* MAX_CONCURRENT_CALENDAR_OPS of the deployment (3 when it is not set)
maxConcurrentCalendarOps == 2

Task(at, key) == [pc |-> at, key |-> key]

InitApp ==
    /\ outcomes = <<>>
    /\ op = NoOp /\ out = <<>>
    /\ IdleBridge /\ IdleMCP
    /\ tasks = [m \in 1..MaxMessages |-> Task("new", "")]
    /\ queue = <<>>
    /\ activeCount = 0
    /\ recentEvents = {}
    /\ timers = [k \in EventKeys |-> 0]
    /\ created = [k \in EventKeys |-> 0]
    /\ stats = [messagesProcessed |-> 0, eventsDetected |-> 0,
                eventsCreated |-> 0]
    /\ runs = <<>>
    /\ conversations = <<>>

\* this.stats.<counter>++
Count(st, counter) == [st EXCEPT ![counter] = @ + 1]

\* a limiter that admits every task
calendarLimitUnbounded(count) == TRUE

\* calendarLimit: a task starts while fewer than the limit are running
calendarLimitFree(count) == count < maxConcurrentCalendarOps

\* handleMessage, for the m-th message to get through it: the message is
\* counted; one of another chat or not from me is dropped, as is one whose
\* getChat() throws; the others are handed to calendarLimit
HandleMessage(m) ==
    /\ tasks[m].pc = "new"
    /\ \A n \in 1..(m - 1) : tasks[n].pc # "new"
    /\ \E accepted \in BOOLEAN :
        /\ tasks' = [tasks EXCEPT
                        ![m] = Task(IF accepted THEN "queued" ELSE "skipped",
                                    "")]
        /\ queue' = IF accepted THEN Append(queue, m) ELSE queue
    /\ stats' = Count(stats, "messagesProcessed")
    /\ UNCHANGED <<activeCount, recentEvents, timers, created>>
    /\ UNCHANGED <<bridgeVars, mcpVars, opVars, outcomes, runVars>>

\* calendarLimit starts the oldest waiting task: processMessage runs up to
\* its await of extractEventInfo
Dequeue ==
    /\ queue # <<>>
    /\ calendarLimitFree(activeCount)
    /\ tasks' = [tasks EXCEPT ![Head(queue)] = Task("extract", "")]
    /\ queue' = Tail(queue)
    /\ activeCount' = activeCount + 1
    /\ UNCHANGED <<recentEvents, timers, created, stats>>
    /\ UNCHANGED <<bridgeVars, mcpVars, opVars, outcomes, runVars>>

\* the task of message m resolves and calendarLimit's next() runs: the
\* count goes down and the oldest waiting task, if any, starts
TaskEnds(m) ==
    IF queue # <<>>
    THEN /\ tasks' = [tasks EXCEPT ![m] = Task("done", tasks[m].key),
                                   ![Head(queue)] = Task("extract", "")]
         /\ queue' = Tail(queue)
         /\ activeCount' = activeCount
    ELSE /\ tasks' = [tasks EXCEPT ![m] = Task("done", tasks[m].key)]
         /\ queue' = queue
         /\ activeCount' = activeCount - 1

\* extractEventInfo settles: it threw (processMessage's catch), found no
\* event, or found one; its key is checked against recentEvents and, when
\* not remembered, createEvent is called
ExtractSettles(m) ==
    /\ tasks[m].pc = "extract"
    /\ \E found \in {"throws", "none"} \cup EventKeys :
        CASE found \in {"throws", "none"} ->
                /\ stats' = stats
                /\ TaskEnds(m)
          [] found \in recentEvents ->
                /\ stats' = Count(stats, "eventsDetected")
                /\ TaskEnds(m)
          [] OTHER ->
                /\ stats' = Count(stats, "eventsDetected")
                /\ tasks' = [tasks EXCEPT ![m] = Task("create", found)]
                /\ UNCHANGED <<queue, activeCount>>
    /\ UNCHANGED <<recentEvents, timers, created>>
    /\ UNCHANGED <<bridgeVars, mcpVars, opVars, outcomes, runVars>>

\* createEvent settles: on success the event is counted and remembered
\* (rememberEvent sets the key and a timer), and the reply is sent when
\* config.whatsapp.autoReply is set
CreateSettles(m) ==
    /\ tasks[m].pc = "create"
    /\ \E success \in BOOLEAN, autoReply \in BOOLEAN :
        IF success
        THEN /\ stats' = Count(stats, "eventsCreated")
             /\ created' = [created EXCEPT ![tasks[m].key] = @ + 1]
             /\ recentEvents' = recentEvents \cup {tasks[m].key}
             /\ timers' = [timers EXCEPT ![tasks[m].key] = @ + 1]
             /\ IF autoReply
                THEN /\ tasks' = [tasks EXCEPT
                                     ![m] = Task("reply", tasks[m].key)]
                     /\ UNCHANGED <<queue, activeCount>>
                ELSE TaskEnds(m)
        ELSE /\ UNCHANGED <<stats, created, recentEvents, timers>>
             /\ TaskEnds(m)
    /\ UNCHANGED <<bridgeVars, mcpVars, opVars, outcomes, runVars>>

\* message.reply settles: it resolved, or threw into processMessage's catch
ReplySettles(m) ==
    /\ tasks[m].pc = "reply"
    /\ TaskEnds(m)
    /\ UNCHANGED <<recentEvents, timers, created, stats>>
    /\ UNCHANGED <<bridgeVars, mcpVars, opVars, outcomes, runVars>>

\* a timer of rememberEvent fires: this.recentEvents.delete(eventKey)
ForgetEvent(k) ==
    /\ timers[k] > 0
    /\ timers' = [timers EXCEPT ![k] = @ - 1]
    /\ recentEvents' = recentEvents \ {k}
    /\ UNCHANGED <<tasks, queue, activeCount, created, stats>>
    /\ UNCHANGED <<bridgeVars, mcpVars, opVars, outcomes, runVars>>

\* the steps the event loop takes once they are due
AppProgress ==
    \/ Dequeue
    \/ \E m \in 1..MaxMessages :
        ExtractSettles(m) \/ CreateSettles(m) \/ ReplySettles(m)

NextApp ==
    \/ \E m \in 1..MaxMessages : HandleMessage(m)
    \/ AppProgress
    \/ \E k \in EventKeys : ForgetEvent(k)

SpecApp == InitApp /\ [][NextApp]_vars

\* every promise awaited settles and the event loop runs what is due
SpecAppLive == SpecApp /\ WF_vars(AppProgress)

(***************************************************************************)
(* SpecRuns: two calls of GPT4MCPBridge.processMessage in progress at the  *)
(* same time.  A turn is tagged with the run that pushed it.               *)
(***************************************************************************)
Runs == {1, 2}

\* one array for all the runs of the bridge
messagesOfBridge(r) == 1

\* const messages = [...]: the array a run allocates at its start
messagesOf(r) == r

RunTurn(r, role, n) == [by |-> r, role |-> role, n |-> n]

Run(at, iteration0, pending, seen) ==
    [pc |-> at, iteration |-> iteration0, pending |-> pending, seen |-> seen]

InitRuns ==
    /\ outcomes = <<>>
    /\ op = NoOp /\ out = <<>>
    /\ IdleBridge /\ IdleMCP
    /\ tasks = <<>> /\ queue = <<>> /\ activeCount = 0
    /\ recentEvents = {}
    /\ timers = [k \in EventKeys |-> 0]
    /\ created = [k \in EventKeys |-> 0]
    /\ stats = [messagesProcessed |-> 0, eventsDetected |-> 0,
                eventsCreated |-> 0]
    /\ runs = [r \in Runs |-> Run("idle", 0, 0, <<>>)]
    /\ conversations = [a \in Runs |-> <<>>]

\* messages.push(turn) by run r
Push(r, turn) ==
    conversations' = [conversations EXCEPT
                         ![messagesOf(r)] = Append(@, turn)]

\* processMessage is called: the system and the user turn
RunStarts(r) ==
    /\ runs[r].pc = "idle"
    /\ conversations' = [conversations EXCEPT
                            ![messagesOf(r)] = <<RunTurn(r, "system", 0),
                                                 RunTurn(r, "user", 0)>>]
    /\ runs' = [runs EXCEPT ![r] = Run("loop", 0, 0, <<>>)]
    /\ UNCHANGED <<bridgeVars, mcpVars, opVars, outcomes, appVars>>

\* while (iteration < maxIterations): iteration++ and the conversation is
\* sent to the model; at the ceiling the run returns
RunCallsModel(r) ==
    /\ runs[r].pc = "loop"
    /\ runs' = [runs EXCEPT
                   ![r] = IF LoopGuard(runs[r].iteration)
                          THEN Run("await", runs[r].iteration + 1, 0,
                                   Append(runs[r].seen,
                                          conversations[messagesOf(r)]))
                          ELSE Run("done", runs[r].iteration, 0, runs[r].seen)]
    /\ UNCHANGED <<conversations, bridgeVars, mcpVars, opVars, outcomes,
                   appVars>>

\* the model call settles: it failed (the run returns), or the assistant
\* turn is pushed, with n tool calls; without tool calls the run returns
RunModelSettles(r) ==
    /\ runs[r].pc = "await"
    /\ \/ /\ runs' = [runs EXCEPT ![r].pc = "done"]
          /\ UNCHANGED conversations
       \/ \E n \in 0..MaxToolCalls :
            /\ Push(r, RunTurn(r, "assistant", n))
            /\ runs' = [runs EXCEPT
                           ![r].pc = IF n = 0 THEN "done" ELSE "tools",
                           ![r].pending = n]
    /\ UNCHANGED <<bridgeVars, mcpVars, opVars, outcomes, appVars>>

\* a tool call of the assistant turn settles: its tool turn is pushed
RunToolSettles(r) ==
    /\ runs[r].pc = "tools"
    /\ Push(r, RunTurn(r, "tool", runs[r].pending))
    /\ runs' = [runs EXCEPT
                   ![r].pending = @ - 1,
                   ![r].pc = IF runs[r].pending = 1 THEN "loop" ELSE "tools"]
    /\ UNCHANGED <<bridgeVars, mcpVars, opVars, outcomes, appVars>>

NextRuns ==
    \E r \in Runs :
        \/ RunStarts(r)
        \/ RunCallsModel(r)
        \/ RunModelSettles(r)
        \/ RunToolSettles(r)

SpecRuns == InitRuns /\ [][NextRuns]_vars

(***************************************************************************)
(* SpecTools: single operations of the tool layer, applied to arguments    *)
(* drawn from bounded sets.  A string is a sequence of characters.         *)
(***************************************************************************)
\* most events the Calendar Store returns for a date range
MaxEvents == 3

\* max_results = 10 in the destructuring of handleSearchEvents
defaultMaxResults == 10

\* String.prototype.toLowerCase
toLowerCase(str) ==
    [i \in 1..Len(str) |->
        CASE str[i] = "A" -> "a" [] str[i] = "B" -> "b" [] OTHER -> str[i]]

\* String.prototype.includes
includes(str, part) ==
    \E i \in 0..(Len(str) - Len(part)) : SubSeq(str, i + 1, i + Len(part)) = part

\* a field no value was given for
Absent == [absent |-> TRUE, str |-> <<>>]
Str(str) == [absent |-> FALSE, str |-> str]

\* event.summary?.toLowerCase().includes(query.toLowerCase()) ||
\* event.description?.toLowerCase().includes(query.toLowerCase())
eventMatches(event, query) ==
    \/ /\ ~event.summary.absent
       /\ includes(toLowerCase(event.summary.str), toLowerCase(query))
    \/ /\ ~event.description.absent
       /\ includes(toLowerCase(event.description.str), toLowerCase(query))

\* Array.prototype.filter: the positions of events kept, in order
RECURSIVE filter(_, _, _)
filter(events, query, i) ==
    IF i > Len(events) THEN <<>>
    ELSE (IF eventMatches(events[i], query) THEN <<i>> ELSE <<>>)
         \o filter(events, query, i + 1)

\* a slice that keeps every element
sliceAll(s, end) == s

\* Array.prototype.slice(0, end): a negative end counts from the back
slice(s, end) ==
    LET to == IF end < 0 THEN Len(s) + end ELSE end
    IN IF to <= 0 THEN <<>>
       ELSE IF to >= Len(s) THEN s ELSE SubSeq(s, 1, to)

\* const { query, date_range, max_results = 10 } = args
MaxResultsOf(args) ==
    IF args.max_results.absent THEN defaultMaxResults ELSE args.max_results.n

\* handleSearchEvents: events.filter(...).slice(0, max_results), the
\* events returned given by their positions in the Calendar Store's list
filteredEvents(args, events) ==
    slice(filter(events, args.query, 1), MaxResultsOf(args))

\* the events getEvents can return
StoredEvents ==
    {[summary |-> Str(<<"A", "b">>), description |-> Absent,
      location |-> Str(<<"b">>)],
     [summary |-> Str(<<"b">>), description |-> Str(<<"B", "a">>),
      location |-> Absent],
     [summary |-> Absent, description |-> Absent, location |-> Str(<<"a">>)],
     [summary |-> Str(<<"B">>), description |-> Str(<<>>),
      location |-> Str(<<"a", "b">>)]}

\* event lists up to MaxEvents long, and lists around the default maximum
EventLists ==
    UNION {[1..n -> StoredEvents] : n \in 0..MaxEvents}
    \cup {[k \in 1..n |-> CHOOSE e \in StoredEvents : ~e.summary.absent
                                                      /\ e.description.absent] :
             n \in {defaultMaxResults, defaultMaxResults + 1,
                    defaultMaxResults + 2}}

\* the arguments of search_calendar_events: a query, max_results absent
\* or a number of the model's choosing
SearchArguments ==
    {[query |-> q, max_results |-> m] :
        q \in {<<>>, <<"a">>, <<"b">>, <<"A", "B">>},
        m \in {[absent |-> TRUE, n |-> 0]}
              \cup {[absent |-> FALSE, n |-> k] : k \in -1..MaxEvents}}

SearchOps ==
    {[fn |-> "search", args |-> a, events |-> ev] :
        a \in SearchArguments, ev \in EventLists}

\* handleSearchEvents is applied
SearchEvents ==
    /\ op.fn = "search" /\ out = <<>>
    /\ out' = <<filteredEvents(op.args, op.events)>>
    /\ UNCHANGED <<op, bridgeVars, mcpVars, outcomes, appVars, runVars>>

\* most tool results one reply is formatted from
MaxResults == 2

\* the intents of the prompt's format, and the fallback of parseToolResponse
Intents ==
    {"create_event", "edit_event", "delete_event", "query_events", "other",
     "unknown"}

\* the results processEventMessage collects: the handlers' JSON payloads,
\* the isError result of handleRequest, the {error} entry of a call that
\* threw (with a message, or with an empty one)
ResultShapes ==
    {ContentResult(TRUE, "Event created"), ContentResult(FALSE, "Failed"),
     EventsResult(0), EventsResult(1), ErrorResult("Event not found"),
     ThrownResult("request failed"), ThrownResult("")}

FormatOps ==
    {[fn |-> "format", intent |-> i, results |-> r] :
        i \in Intents, r \in UNION {[1..n -> ResultShapes] : n \in 0..MaxResults}}

\* formatResponse is applied
FormatResponse ==
    /\ op.fn = "format" /\ out = <<>>
    /\ out' = <<formatResponse(op.intent, op.results)>>
    /\ UNCHANGED <<op, bridgeVars, mcpVars, outcomes, appVars, runVars>>

(***************************************************************************)
(* Times.  An instant is a number of minutes since midnight UTC of day 0.  *)
(* A date-time string is a record: kind "iso" is the wall clock `wall`     *)
(* (minutes since midnight of day 0) written with the UTC offset `offset`  *)
(* (minutes; "Z" is offset 0), kind "local" is an ISO wall clock written   *)
(* without an offset, kind "words" is the phrase "tomorrow 2:00 PM" of the *)
(* prompt's example, kind "absent" is a field no value was given for.      *)
(***************************************************************************)
Iso(wall, offset) == [kind |-> "iso", wall |-> wall, offset |-> offset]
Local(wall) == [kind |-> "local", wall |-> wall, offset |-> 0]
Words == [kind |-> "words", wall |-> 0, offset |-> 0]
NoTime == [kind |-> "absent", wall |-> 0, offset |-> 0]

\* new Date(isoDateTime): the instant an ISO string with an offset names
Date(isoDateTime) == isoDateTime.wall - isoDateTime.offset

\* Date.prototype.toISOString: the UTC wall clock of the instant, with "Z"
toISOString(date) == Iso(date, 0)

\* .replace('Z', '+03:00'): the same wall clock, relabelled +03:00
replaceZ(str) == IF str.offset = 0 THEN Iso(str.wall, 180) ELSE str

\* addOneHour: date.setHours(date.getHours() + 1), then
\* date.toISOString().replace('Z', '+03:00')
addOneHour(isoDateTime) ==
    LET date == Date(isoDateTime) + 60
    IN  replaceZ(toISOString(date))

\* CalendarService.parseDateTime, the branch of eventInfo.startDateTime
parseIsoDateTime(eventInfo) ==
    [startDateTime |-> eventInfo.startDateTime,
     endDateTime |-> IF eventInfo.endDateTime.kind # "absent"
                     THEN eventInfo.endDateTime
                     ELSE addOneHour(eventInfo.startDateTime)]

\* CalendarService.buildEventData: the start and end of the event the
\* Calendar Store is sent
buildEventData(times) ==
    [start |-> times.startDateTime, end |-> times.endDateTime]

\* GPT4MCPBridge.handleCreateEvent: the event calendarService.createEvent
\* sends for the arguments of create_calendar_event
createdEvent(args) ==
    LET eventInfo ==
            [startDateTime |-> args.start_time,
             endDateTime |-> IF args.end_time.kind # "absent"
                             THEN args.end_time
                             ELSE addOneHour(args.start_time)]
    IN  buildEventData(parseIsoDateTime(eventInfo))

\* the wall clocks of the start strings: day 1 at 00:15, 09:00, 14:00 and
\* 23:30, day 2 at 14:00
StartWalls == {1455, 1980, 2280, 2850, 3720}

\* the UTC offsets of the start strings: Z, +03:00, -05:00, +05:30
Offsets == {0, 180, -300, 330}

\* the arguments of create_calendar_event as the bridge's prompt asks for
\* them: ISO strings with an offset, end_time optional
CreateArguments ==
    {[start_time |-> Iso(w, o),
      end_time |-> IF d = 0 THEN NoTime ELSE Iso(w + d, o)] :
        w \in StartWalls, o \in Offsets, d \in {0, 30, 90}}

CreateOps == {[fn |-> "create", args |-> a] : a \in CreateArguments}

\* GPT4MCPBridge.handleCreateEvent is applied
CreateEvent ==
    /\ op.fn = "create" /\ out = <<>>
    /\ out' = <<createdEvent(op.args)>>
    /\ UNCHANGED <<op, bridgeVars, mcpVars, outcomes, appVars, runVars>>

\* config.calendar.defaultEventDuration, in minutes
defaultDuration == 60

\* moment(dateTimeStr): the wall clock in the zone at offset `zone`, or an
\* invalid moment for a string that is not a date (Date.parse gives NaN).
\* The process's zone and config.calendar.timezone are one zone here.
moment(dateTimeStr, zone) ==
    CASE dateTimeStr.kind = "local" -> [valid |-> TRUE, wall |-> dateTimeStr.wall]
      [] dateTimeStr.kind = "iso" ->
            [valid |-> TRUE, wall |-> Date(dateTimeStr) + zone]
      [] OTHER -> [valid |-> FALSE, wall |-> 0]

\* extractDate: moment(dateTimeStr).format('YYYY-MM-DD'), the text
\* "Invalid date" for an invalid moment
extractDate(dateTimeStr, zone) ==
    LET m == moment(dateTimeStr, zone)
    IN  [valid |-> m.valid, day |-> m.wall \div 1440]

\* extractTime: moment(dateTimeStr).format('HH:mm A'), the 24-hour clock
\* followed by the meridiem, or the text "Invalid date"
extractTime(dateTimeStr, zone) ==
    LET m == moment(dateTimeStr, zone)
        hours == (m.wall % 1440) \div 60
    IN  [valid |-> m.valid, hours |-> hours, minutes |-> m.wall % 60,
         ampm |-> IF hours < 12 THEN "am" ELSE "pm"]

\* timeStr.match(/(\d{1,2}):?(\d{2})?\s*(am|pm)?/) on the text of
\* extractTime: no digit, no match
timeMatch(time) == time.valid

\* the conversion to the 24-hour clock of parseDateTime
to24Hours(hours, ampm) ==
    CASE ampm = "pm" /\ hours # 12 -> hours + 12
      [] ampm = "am" /\ hours = 12 -> 0
      [] OTHER -> hours

\* CalendarService.parseDateTime, the legacy branch, for the date and time
\* texts of CalendarMCPServer.handleCreateEvent at the wall clock `now`:
\* the wall clock of the start
eventMoment(date, time, now) ==
    LET parsed ==
            IF date.valid
            THEN IF date.day < now \div 1440
                 THEN (date.day + 7) * 1440
                 ELSE date.day * 1440
            ELSE now + 60
    IN  IF timeMatch(time)
        THEN (parsed \div 1440) * 1440
                 + to24Hours(time.hours, time.ampm) * 60 + time.minutes
        ELSE parsed

\* CalendarMCPServer.handleCreateEvent: the event calendarService.createEvent
\* sends for the arguments of create_calendar_event
mcpCreatedEvent(args, now, zone) ==
    LET start == eventMoment(extractDate(args.start_time, zone),
                             extractTime(args.start_time, zone), now)
    IN  buildEventData(
            [startDateTime |-> toISOString(start - zone),
             endDateTime |-> toISOString(start + defaultDuration - zone)])

\* the wall clocks of the moment of the call: day 1 at 09:00, 13:00, 23:30
Nows == {1980, 2220, 2850}

\* the zones of the calendar: -05:00, +03:00
Zones == {-300, 180}

\* the wall clock of the next calendar day at 14:00
TomorrowAt2pm(now) == (now \div 1440 + 1) * 1440 + 840

\* the start_time of the MCP service's create_calendar_event: the phrase of
\* the prompt's example, or an ISO string with or without an offset
MCPCreateOps ==
    {[fn |-> "mcp_create", args |-> [start_time |-> s], now |-> n, zone |-> z] :
        s \in {Words} \cup {Local(w) : w \in StartWalls \cup {600, 3420}}
              \cup {Iso(w, o) : w \in StartWalls, o \in Offsets},
        n \in Nows, z \in Zones}

\* CalendarMCPServer.handleCreateEvent is applied
MCPCreateEvent ==
    /\ op.fn = "mcp_create" /\ out = <<>>
    /\ out' = <<mcpCreatedEvent(op.args, op.now, op.zone)>>
    /\ UNCHANGED <<op, bridgeVars, mcpVars, outcomes, appVars, runVars>>

(***************************************************************************)
(* The date/time resolver.  Day 0 is a Sunday and the first day of a       *)
(* month of 31 days.  An expression is a record: kw is the keyword its     *)
(* lower-cased text contains ("none" when it holds none), exact says the   *)
(* text is the keyword and nothing else, hour and period are the clock     *)
(* time /(\d{1,2})\s?(am|pm)/ finds in it (period "none": no match), abs   *)
(* is the wall clock moment.tz parses the text to (-1: an invalid moment). *)
(* A moment is a wall clock in minutes and the seconds and milliseconds    *)
(* within the minute, sub, in milliseconds.                                *)
(***************************************************************************)
Expr(kw, exact, hour, period, abs) ==
    [kw |-> kw, exact |-> exact, hour |-> hour, period |-> period, abs |-> abs]

\* the expressions the resolver is given: the keywords alone, today and
\* tomorrow inside a phrase with and without a clock time, a weekday name,
\* week and month ranges, an absolute date-time, a text that is no date
Expressions ==
    {Expr(k, TRUE, 0, "none", -1) :
        k \in {"today", "tomorrow", "yesterday", "monday", "this week",
               "next week", "this month", "next month"}}
    \cup {Expr(k, FALSE, 0, "none", -1) : k \in {"today", "tomorrow"}}
    \cup {Expr(k, FALSE, h, p, -1) :
            k \in {"today", "tomorrow"}, h \in {3, 12}, p \in {"am", "pm"}}
    \cup {Expr("none", FALSE, 0, "none", a) : a \in {-1, 3720}}

\* parsed.toISOString(): the UTC wall clock with "Z", null for an invalid
\* moment; rule names the branch of the resolver the moment came from
Instant(rule, valid, wall, sub, zone) ==
    [kind |-> IF valid THEN "iso" ELSE "null", wall |-> wall - zone,
     offset |-> 0, sub |-> sub, rule |-> rule]

\* parsed.startOf('day') / parsed.endOf('day') of the day of a wall clock
dayBoundary(rule, wall, endOfDay, zone) ==
    IF endOfDay
    THEN Instant(rule, TRUE, (wall \div 1440) * 1440 + 1439, 59999, zone)
    ELSE Instant(rule, TRUE, (wall \div 1440) * 1440, 0, zone)

\* period === 'pm' && hour !== 12 ? hour + 12
\*     : (period === 'am' && hour === 12 ? 0 : hour), then
\* parsed.hour(hour24).minute(0).second(0), which keeps the milliseconds
atHour(rule, wall, sub, e, zone) ==
    LET hour24 == CASE e.period = "pm" /\ e.hour # 12 -> e.hour + 12
                    [] e.period = "am" /\ e.hour = 12 -> 0
                    [] OTHER -> e.hour
    IN  Instant(rule, TRUE, (wall \div 1440) * 1440 + hour24 * 60,
                sub % 1000, zone)

\* GPT4MCPBridge.parseDateTime at the moment (now, sub); its timezone is
\* the literal 'Asia/Jerusalem', +03:00
parseDateTime(e, endOfDay, now, sub) ==
    CASE e.exact /\ e.kw = "today" -> dayBoundary("keyword", now, endOfDay, 180)
      [] e.exact /\ e.kw = "tomorrow" ->
            dayBoundary("keyword", now + 1440, endOfDay, 180)
      [] e.exact /\ e.kw = "yesterday" ->
            dayBoundary("keyword", now - 1440, endOfDay, 180)
      [] ~e.exact /\ e.kw = "tomorrow" ->
            IF e.period # "none"
            THEN atHour("keyword", now + 1440, sub, e, 180)
            ELSE dayBoundary("keyword", now + 1440, endOfDay, 180)
      [] ~e.exact /\ e.kw = "today" ->
            IF e.period # "none"
            THEN atHour("keyword", now, sub, e, 180)
            ELSE Instant("keyword", TRUE, now, sub, 180)
      [] OTHER ->
            IF e.abs # -1
            THEN Instant("direct", TRUE, e.abs, 0, 180)
            ELSE Instant("fallback", TRUE, now, sub, 180)

\* CalendarMCPServer.parseDateTime at the moment (now, sub), in the zone
\* of calendarService.timezone
serverParseDateTime(e, endOfDay, now, sub, zone) ==
    LET shift == CASE e.kw = "today" -> 0 [] e.kw = "tomorrow" -> 1440
                   [] OTHER -> -1440
        keyword == e.exact /\ e.kw \in {"today", "tomorrow", "yesterday"}
        rule == IF keyword THEN "keyword" ELSE "direct"
        valid == keyword \/ e.abs # -1
        wall == IF keyword THEN now + shift ELSE e.abs
    IN  IF endOfDay /\ valid THEN dayBoundary(rule, wall, TRUE, zone)
        ELSE Instant(rule, valid, wall, IF keyword THEN sub ELSE 0, zone)

\* parseDateRange (the bridge's and the server's have one body) at the
\* moment (now, sub): startTime and endTime
parseDateRange(e, now, sub, zone) ==
    LET day == now \div 1440
        week == (day - (day % 7)) * 1440
        range(rule, from, to) ==
            [rule |-> rule,
             startTime |-> dayBoundary(rule, from, FALSE, zone),
             endTime |-> dayBoundary(rule, to, TRUE, zone)]
    IN  CASE e.exact /\ e.kw = "today" -> range("keyword", now, now)
          [] e.exact /\ e.kw = "tomorrow" ->
                range("keyword", now + 1440, now + 1440)
          [] e.exact /\ e.kw = "this week" ->
                range("keyword", week, week + 6 * 1440)
          [] e.exact /\ e.kw = "next week" ->
                range("keyword", week + 7 * 1440, week + 13 * 1440)
          [] e.exact /\ e.kw = "this month" ->
                range("keyword", 0, 30 * 1440)
          [] OTHER ->
                [rule |-> "fallback",
                 startTime |-> Instant("fallback", TRUE, now, sub, zone),
                 endTime |-> Instant("fallback", TRUE, now + 7 * 1440, sub, zone)]

\* the resolver is called twice within one second: milliseconds 100 and
\* then 100 or 600 of second 17
ResolveOps ==
    {[fn |-> f, dateStr |-> e, endOfDay |-> b, now |-> n, zone |-> z,
      subs |-> <<17100, s>>] :
        f \in {"parseDateTime", "serverParseDateTime", "parseDateRange"},
        e \in Expressions, b \in BOOLEAN, n \in {1980, 2850}, z \in Zones,
        s \in {17100, 17600}}

\* one call of the resolver returns
Resolve ==
    /\ op.fn \in {"parseDateTime", "serverParseDateTime", "parseDateRange"}
    /\ Len(out) < 2
    /\ LET sub == op.subs[Len(out) + 1]
       IN  out' = Append(out,
               CASE op.fn = "parseDateTime" ->
                        parseDateTime(op.dateStr, op.endOfDay, op.now, sub)
                 [] op.fn = "serverParseDateTime" ->
                        serverParseDateTime(op.dateStr, op.endOfDay, op.now,
                                            sub, op.zone)
                 [] OTHER -> parseDateRange(op.dateStr, op.now, sub, op.zone))
    /\ UNCHANGED <<op, bridgeVars, mcpVars, outcomes, appVars, runVars>>

\* the events a Calendar Store can hold: id, summary and start instant;
\* day 0 to day 30 are the current month of a call on day 1
CalendarEvents ==
    {[id |-> <<"e", "1">>, summary |-> Str(<<"A", "B">>), start |-> 5 * 1440],
     [id |-> <<"e", "2">>, summary |-> Str(<<"b">>), start |-> 2 * 1440 + 600],
     [id |-> <<"e", "3">>, summary |-> Str(<<"a", "b">>), start |-> 40 * 1440],
     [id |-> <<"e", "4">>, summary |-> Absent, start |-> 10 * 1440],
     [id |-> <<"e", "5">>, summary |-> Str(<<"a">>), start |-> -3 * 1440]}

\* calendar.events.list({timeMin, timeMax, singleEvents: true,
\* orderBy: 'startTime'}): the events of the store in the range, ordered
\* by their start
getEvents(store, startTime, endTime) ==
    LET inRange == {e \in store : /\ e.start >= Date(startTime)
                                  /\ e.start <= Date(endTime)}
    IN  CHOOSE list \in [1..Cardinality(inRange) -> inRange] :
            \A i, j \in DOMAIN list : i < j => list[i].start < list[j].start

\* findEventByIdentifier at the moment now: <<the event>> or <<>>.
\* calendar.events.get finds the event with that id or throws; the title
\* search takes the first event of this month whose summary holds the
\* identifier
findEventByIdentifier(identifier, store, now, zone) ==
    LET byId == {e \in store : e.id = identifier}
        month == parseDateRange(Expr("this month", TRUE, 0, "none", -1),
                                now, 0, zone)
        events == getEvents(store, month.startTime, month.endTime)
        found == {i \in DOMAIN events :
                    /\ ~events[i].summary.absent
                    /\ includes(toLowerCase(events[i].summary.str),
                                toLowerCase(identifier))}
    IN  CASE byId # {} -> <<CHOOSE e \in byId : TRUE>>
          [] found # {} ->
                <<events[CHOOSE i \in found : \A j \in found : i <= j]>>
          [] OTHER -> <<>>

\* a lookup that searches the titles of the whole store
findEventAnywhere(name, identifier, store, now, zone) ==
    LET all == getEvents(store, Iso(-10 * 1440, 0), Iso(50 * 1440, 0))
        found == {i \in DOMAIN all :
                    /\ ~all[i].summary.absent
                    /\ includes(toLowerCase(all[i].summary.str),
                                toLowerCase(identifier))}
    IN  IF found = {} THEN <<>>
        ELSE <<[fn |-> IF name = "delete_calendar_event" THEN "deleteEvent"
                       ELSE "updateEvent",
                id |-> all[CHOOSE i \in found : \A j \in found : i <= j].id]>>

\* handleUpdateEvent / handleDeleteEvent: the mutation of the Calendar
\* Store the handler calls for an identifier, none when the lookup finds
\* no event (the handler throws)
storeMutation(name, identifier, store, now, zone) ==
    LET event == findEventByIdentifier(identifier, store, now, zone)
    IN  IF event = <<>> THEN <<>>
        ELSE <<[fn |-> IF name = "delete_calendar_event" THEN "deleteEvent"
                       ELSE "updateEvent",
                id |-> event[1].id]>>

\* update and delete are given a title in any case, a text no title holds,
\* or an event id
IdentifierOps ==
    {[fn |-> f, identifier |-> i, store |-> s, now |-> 1980, zone |-> z] :
        f \in {"update_calendar_event", "delete_calendar_event"},
        i \in {<<"a">>, <<"B">>, <<"a", "b">>, <<"c">>, <<"e", "3">>},
        s \in SUBSET CalendarEvents, z \in Zones}

\* handleUpdateEvent / handleDeleteEvent is applied
MutateByIdentifier ==
    /\ op.fn \in {"update_calendar_event", "delete_calendar_event"}
    /\ out = <<>>
    /\ out' = <<storeMutation(op.fn, op.identifier, op.store, op.now,
                              op.zone)>>
    /\ UNCHANGED <<op, bridgeVars, mcpVars, outcomes, appVars, runVars>>

\* a CalendarService method whose catch throws the error on
calendarServiceRethrowing(method, backend) ==
    IF \E i \in DOMAIN backend : backend[i] = "error"
    THEN [thrown |-> "backend error", value |-> ToolResult(FALSE, "", "")]
    ELSE [thrown |-> "", value |-> ToolResult(TRUE, "", "")]

\* CalendarService.createEvent, updateEvent, deleteEvent and getEvents:
\* backend holds what the steps inside the method's try do, in order
\* (createEvent: buildEventData, events.insert; updateEvent: events.get,
\* events.update; deleteEvent: events.delete; getEvents: events.list).
\* The catch of getEvents throws the error on, the others return it
calendarService(method, backend) ==
    CASE \A i \in DOMAIN backend : backend[i] = "ok" ->
            [thrown |-> "", value |-> ToolResult(TRUE, "", "")]
      [] method = "getEvents" ->
            [thrown |-> "backend error", value |-> ToolResult(FALSE, "", "")]
      [] OTHER ->
            [thrown |-> "", value |-> ToolResult(FALSE, "backend error", "")]

\* the methods of CalendarService, each with every way its backend steps
\* can go
ServiceOps ==
    {[fn |-> "CalendarService", method |-> m, backend |-> b] :
        m \in {"createEvent", "updateEvent", "deleteEvent", "getEvents"},
        b \in [1..2 -> {"ok", "error"}] \cup [1..1 -> {"ok", "error"}]} \
    {[fn |-> "CalendarService", method |-> m, backend |-> b] :
        m \in {"deleteEvent", "getEvents"}, b \in [1..2 -> {"ok", "error"}]}

\* a method of CalendarService is called and settles
CallCalendarService ==
    /\ op.fn = "CalendarService" /\ out = <<>>
    /\ out' = <<calendarService(op.method, op.backend)>>
    /\ UNCHANGED <<op, bridgeVars, mcpVars, outcomes, appVars, runVars>>

(***************************************************************************)
(* The retry loops around the Ollama request: generateResponseWithTools    *)
(* of MCPLLMService and extractEventInfo of LLMService.  settles[k] is     *)
(* how the k-th axios.post settles; a loop returns [trace, thrown, value], *)
(* trace being the requests it made and the pauses it awaited, in order.   *)
(***************************************************************************)
\* await axios.post(`${this.baseUrl}/api/generate`, ...): request number k
Post(k) == [step |-> "post", n |-> k]

\* await new Promise(resolve => setTimeout(resolve, ms))
Wait(ms) == [step |-> "wait", n |-> ms]

\* what a retry loop returns
Retried(trace, thrown, value) ==
    [trace |-> trace, thrown |-> thrown, value |-> value]

\* the result of the extraction: who extracted it, and whether it is an event
Extracted(by, isEvent) == [extractedBy |-> by, isEvent |-> isEvent]

\* LLMService.fallbackEventExtraction: an event if the text holds an event
\* keyword and a time keyword
fallbackEventExtraction(text) ==
    Extracted("fallback", text.hasEventKeyword /\ text.hasTimeKeyword)

\* LLMService.parseEventResponse: the reply of the model holds an event, no
\* event, or nothing that passes the validation; the catch of the last case
\* returns the keyword-based extraction
parseEventResponse(reply, text) ==
    CASE reply = "event" -> Extracted("llm", TRUE)
      [] reply = "none" -> Extracted("llm", FALSE)
      [] OTHER -> fallbackEventExtraction(text)

\* for (let attempt = 1; attempt <= this.maxRetries; attempt++) of
\* MCPLLMService.generateResponseWithTools, from attempt on
RECURSIVE generateResponseWithTools(_, _)
generateResponseWithTools(settles, k) ==
    IF k > maxRetries THEN Retried(<<>>, "", "undefined")
    ELSE IF settles[k] = "resolves"
    THEN Retried(<<Post(k)>>, "", "parseToolResponse")
    ELSE IF k = maxRetries
    THEN Retried(<<Post(k)>>, "All LLM attempts failed", "")
    ELSE LET rest == generateResponseWithTools(settles, k + 1) IN
         [rest EXCEPT !.trace = <<Post(k), Wait(Backoff(k))>> \o @]

\* the same loop of LLMService.extractEventInfo: behind the last failed
\* attempt it returns the keyword-based extraction
RECURSIVE extractEventInfo(_, _, _, _)
extractEventInfo(settles, k, reply, text) ==
    IF k > maxRetries THEN Retried(<<>>, "", "undefined")
    ELSE IF settles[k] = "resolves"
    THEN Retried(<<Post(k)>>, "", parseEventResponse(reply, text))
    ELSE IF k = maxRetries
    THEN Retried(<<Post(k)>>, "", fallbackEventExtraction(text))
    ELSE LET rest == extractEventInfo(settles, k + 1, reply, text) IN
         [rest EXCEPT !.trace = <<Post(k), Wait(Backoff(k))>> \o @]

\* how the requests of one message settle, what the model replies, and the
\* keywords of the message
RetryOps ==
    {[fn |-> "retry", service |-> s, settles |-> a, reply |-> r,
      text |-> [hasEventKeyword |-> e, hasTimeKeyword |-> t]] :
        s \in {"MCPLLMService", "LLMService"},
        a \in [1..maxRetries -> {"rejects", "resolves"}],
        r \in {"event", "none", "garbled"},
        e \in BOOLEAN, t \in BOOLEAN}

\* one message goes through the retry loop of its service
Retry ==
    /\ op.fn = "retry" /\ out = <<>>
    /\ out' = <<IF op.service = "MCPLLMService"
                THEN generateResponseWithTools(op.settles, 1)
                ELSE extractEventInfo(op.settles, 1, op.reply, op.text)>>
    /\ UNCHANGED <<op, bridgeVars, mcpVars, outcomes, appVars, runVars>>

\* the requests a retry loop made
Posts(trace) == {i \in 1..Len(trace) : trace[i].step = "post"}

\* the first attempt that resolves; maxRetries if none does
LastAttempt(settles) ==
    IF \E k \in 1..maxRetries : settles[k] = "resolves"
    THEN CHOOSE k \in 1..maxRetries :
            /\ settles[k] = "resolves"
            /\ \A j \in 1..(k - 1) : settles[j] = "rejects"
    ELSE maxRetries

Exhausted(settles) == \A k \in 1..maxRetries : settles[k] = "rejects"

\* C31: a retry loop makes at most maxRetries requests and stops at the
\* first that succeeds; it waits 1000 * k ms behind the k-th failed attempt
\* and before attempt k + 1, and it does not wait behind the last failure;
\* when every attempt failed generateResponseWithTools throws, while
\* extractEventInfo returns the keyword-based extraction and does not throw
C31_RetryLoops ==
    (op.fn = "retry" /\ out # <<>>) =>
        LET r == out[1]
            n == LastAttempt(op.settles)
        IN /\ Cardinality(Posts(r.trace)) <= maxRetries
           /\ Cardinality(Posts(r.trace)) = n
           /\ Len(r.trace) = 2 * n - 1
           /\ \A k \in 1..n : r.trace[2 * k - 1] = Post(k)
           /\ \A k \in 1..(n - 1) : r.trace[2 * k] = Wait(1000 * k)
           /\ (r.thrown # "") <=> (op.service = "MCPLLMService"
                                   /\ Exhausted(op.settles))
           /\ (op.service = "LLMService" /\ Exhausted(op.settles)) =>
                 r.value = [extractedBy |-> "fallback",
                            isEvent |-> op.text.hasEventKeyword
                                        /\ op.text.hasTimeKeyword]

\* both loops exhaust their attempts, and a loop succeeds at its second
C31_Witness ==
    /\ op.fn = "retry" /\ out # <<>>
    /\ op.service = "LLMService" /\ Exhausted(op.settles)
    /\ out[1].trace = <<Post(1), Wait(1000), Post(2), Wait(2000), Post(3)>>
    /\ out[1].value.extractedBy = "fallback"

\* C40: a key recorded by rememberEvent is recognised as a duplicate for
\* the whole duplicate window behind its most recent recording, and is
\* forgotten once that window has elapsed, however often and whenever the
\* key was recorded: it is remembered exactly while a timer of it is pending
C40_RememberedForWindow ==
    \A k \in EventKeys :
        /\ timers[k] > 0 => k \in recentEvents
        /\ timers[k] = 0 => k \notin recentEvents

(***************************************************************************)
(* WhatsAppSecretary of config.js: handleMessage filters the messages and  *)
(* hands them to calendarLimit; processMessage takes the MCP path          *)
(* (MCPLLMService.processEventMessage) and, when that path throws, the     *)
(* fallback path (processMessageFallback).  tasks[m] is message m with the *)
(* position of its processing and what has been done for it.               *)
(***************************************************************************)
\* the messages the secretary receives
MaxReceived == 2

\* the chat of a message: the configured target group, another group, a
\* chat that is no group, or unknown because getChat() rejected
Chats == {"target", "other group", "direct", "unknown"}

\* a message nothing has been done for
Received(at) ==
    [pc |-> at, chat |-> "", fromMe |-> FALSE, modelCalls |-> 0,
     toolCalls |-> 0, calendarOps |-> 0, replies |-> 0, mcpCreated |-> 0,
     threw |-> FALSE, fallbacks |-> 0, fallbackCreated |-> 0,
     fallbackThrew |-> FALSE, counted |-> 0, rejected |-> FALSE]

InitSecretary ==
    /\ outcomes = <<>>
    /\ op = NoOp /\ out = <<>>
    /\ IdleBridge /\ IdleMCP
    /\ tasks = [m \in 1..MaxReceived |-> Received("new")]
    /\ queue = <<>>
    /\ activeCount = 0
    /\ recentEvents = {}
    /\ timers = [k \in EventKeys |-> 0]
    /\ created = [k \in EventKeys |-> 0]
    /\ stats = [messagesProcessed |-> 0, eventsDetected |-> 0,
                eventsCreated |-> 0]
    /\ runs = <<>>
    /\ conversations = <<>>

\* a filter that looks at the chat alone
isTargetChat(chat, fromMe) == chat = "target"

\* the two early returns of handleMessage passed: chat.isGroup,
\* chat.name === config.whatsapp.targetGroupName and message.fromMe
isTargetMessage(chat, fromMe) == chat = "target" /\ fromMe

\* handleMessage: the message is counted, then getChat() is awaited; a
\* message of the target group that is from me is handed to calendarLimit
ReceiveMessage(m) ==
    /\ tasks[m].pc = "new"
    /\ \A n \in 1..(m - 1) : tasks[n].pc # "new"
    /\ \E chat \in Chats, fromMe \in BOOLEAN :
        LET handed == chat # "unknown" /\ isTargetMessage(chat, fromMe) IN
        /\ tasks' = [tasks EXCEPT
                        ![m] = [@ EXCEPT
                                   !.pc = IF handed THEN "queued"
                                          ELSE "skipped",
                                   !.chat = chat, !.fromMe = fromMe]]
        /\ queue' = IF handed THEN Append(queue, m) ELSE queue
    /\ stats' = Count(stats, "messagesProcessed")
    /\ UNCHANGED <<activeCount, recentEvents, timers, created>>
    /\ UNCHANGED <<bridgeVars, mcpVars, opVars, outcomes, runVars>>

\* calendarLimit starts the oldest waiting task: processMessage runs up to
\* its await of llmService.processEventMessage
StartProcessMessage ==
    /\ queue # <<>>
    /\ calendarLimitFree(activeCount)
    /\ tasks' = [tasks EXCEPT
                    ![Head(queue)] = [@ EXCEPT !.pc = "mcp",
                                               !.modelCalls = @ + 1]]
    /\ queue' = Tail(queue)
    /\ activeCount' = activeCount + 1
    /\ UNCHANGED <<recentEvents, timers, created, stats>>
    /\ UNCHANGED <<bridgeVars, mcpVars, opVars, outcomes, runVars>>

\* processMessage of message m settles with its record being msg, and
\* calendarLimit's next() runs: the oldest waiting task, if any, starts
Settled(m, msg) ==
    IF queue # <<>>
    THEN /\ tasks' = [tasks EXCEPT
                        ![m] = msg,
                        ![Head(queue)] = [@ EXCEPT !.pc = "mcp",
                                                   !.modelCalls = @ + 1]]
         /\ queue' = Tail(queue)
         /\ activeCount' = activeCount
    ELSE /\ tasks' = [tasks EXCEPT ![m] = msg]
         /\ queue' = queue
         /\ activeCount' = activeCount - 1

\* what processEventMessage gives processMessage: an exception (every LLM
\* attempt failed, no MCP server), processed: false for an output without
\* tool calls, or processed: true with the intent of the output and the
\* results of its tool calls; here one call, of createEvent or getEvents,
\* that succeeded or not
McpResult(thrown, flag, intent, tool, success) ==
    [thrown |-> thrown, processed |-> flag, intent |-> intent,
     tool |-> tool, success |-> success]

McpResults ==
    {McpResult(TRUE, FALSE, "", "", FALSE),
     McpResult(FALSE, FALSE, "other", "", FALSE),
     McpResult(FALSE, TRUE, "create_event", "create_calendar_event", TRUE),
     McpResult(FALSE, TRUE, "create_event", "create_calendar_event", FALSE),
     McpResult(FALSE, TRUE, "query_events", "list_calendar_events", TRUE)}

\* the switch on result.intent: this.stats.eventsCreated++ for create_event
CountsAsCreated(intent) == intent = "create_event"

\* the catch of processMessage: the fallback starts, processMessageFallback
\* runs up to its await of extractEventInfo
Fallback(msg) ==
    [msg EXCEPT !.pc = "fallback extract", !.threw = TRUE,
                !.fallbacks = @ + 1, !.modelCalls = @ + 1]

\* a try around processMessageFallback that lets the exception through
FallbackRethrows(error) == FALSE

\* catch (fallbackError): the exception of the fallback ends here
FallbackCatches(error) == TRUE

\* processEventMessage settles: its exception goes to the catch; an
\* unprocessed result ends processMessage; a processed one is counted as
\* detected and, with autoReply, its message is sent as a reply
ProcessEventMessageSettles(m) ==
    /\ tasks[m].pc = "mcp"
    /\ \E result \in McpResults, autoReply \in BOOLEAN :
        LET ran == [tasks[m] EXCEPT
                       !.toolCalls = IF result.processed THEN 1 ELSE 0,
                       !.calendarOps = IF result.processed THEN 1 ELSE 0,
                       !.mcpCreated =
                           IF result.tool = "create_calendar_event"
                              /\ result.success THEN 1 ELSE 0]
        IN CASE result.thrown ->
                  /\ tasks' = [tasks EXCEPT ![m] = Fallback(ran)]
                  /\ UNCHANGED <<queue, activeCount, stats>>
             [] ~result.thrown /\ ~result.processed ->
                  /\ Settled(m, [ran EXCEPT !.pc = "done"])
                  /\ UNCHANGED stats
             [] result.processed /\ autoReply ->
                  /\ tasks' = [tasks EXCEPT
                                  ![m] = [ran EXCEPT
                                             !.pc = IF CountsAsCreated(result.intent)
                                                    THEN "reply, count"
                                                    ELSE "reply"]]
                  /\ stats' = Count(stats, "eventsDetected")
                  /\ UNCHANGED <<queue, activeCount>>
             [] OTHER ->
                  IF CountsAsCreated(result.intent)
                  THEN /\ Settled(m, [ran EXCEPT !.pc = "done",
                                                 !.counted = @ + 1])
                       /\ stats' = Count(Count(stats, "eventsDetected"),
                                         "eventsCreated")
                  ELSE /\ Settled(m, [ran EXCEPT !.pc = "done"])
                       /\ stats' = Count(stats, "eventsDetected")
    /\ UNCHANGED <<recentEvents, timers, created>>
    /\ UNCHANGED <<bridgeVars, mcpVars, opVars, outcomes, runVars>>

\* await message.reply(result.message) settles: behind a reply that
\* resolved the switch on the intent runs; one that rejected throws into
\* the catch of processMessage
McpReplySettles(m) ==
    /\ tasks[m].pc \in {"reply", "reply, count"}
    /\ \E resolves \in BOOLEAN :
        IF ~resolves
        THEN /\ tasks' = [tasks EXCEPT ![m] = Fallback(tasks[m])]
             /\ UNCHANGED <<queue, activeCount, stats>>
        ELSE IF tasks[m].pc = "reply, count"
        THEN /\ Settled(m, [tasks[m] EXCEPT !.pc = "done", !.replies = @ + 1,
                                            !.counted = @ + 1])
             /\ stats' = Count(stats, "eventsCreated")
        ELSE /\ Settled(m, [tasks[m] EXCEPT !.pc = "done", !.replies = @ + 1])
             /\ UNCHANGED stats
    /\ UNCHANGED <<recentEvents, timers, created>>
    /\ UNCHANGED <<bridgeVars, mcpVars, opVars, outcomes, runVars>>

\* extractEventInfo of the fallback service settles: without an event
\* processMessageFallback returns, with one createEvent is called
FallbackExtractSettles(m) ==
    /\ tasks[m].pc = "fallback extract"
    /\ \E isEvent \in BOOLEAN :
        IF isEvent
        THEN /\ tasks' = [tasks EXCEPT
                             ![m] = [@ EXCEPT !.pc = "fallback create",
                                              !.calendarOps = @ + 1]]
             /\ UNCHANGED <<queue, activeCount>>
        ELSE Settled(m, [tasks[m] EXCEPT !.pc = "done"])
    /\ UNCHANGED <<recentEvents, timers, created, stats>>
    /\ UNCHANGED <<bridgeVars, mcpVars, opVars, outcomes, runVars>>

\* calendarService.createEvent settles: on success the event is counted
\* and, with autoReply, config.whatsapp.replyMessage is sent
FallbackCreateSettles(m) ==
    /\ tasks[m].pc = "fallback create"
    /\ \E success \in BOOLEAN, autoReply \in BOOLEAN :
        IF ~success
        THEN /\ Settled(m, [tasks[m] EXCEPT !.pc = "done"])
             /\ UNCHANGED stats
        ELSE /\ stats' = Count(stats, "eventsCreated")
             /\ LET made == [tasks[m] EXCEPT !.fallbackCreated = @ + 1,
                                             !.counted = @ + 1]
                IN IF autoReply
                   THEN /\ tasks' = [tasks EXCEPT
                                        ![m] = [made EXCEPT
                                                   !.pc = "fallback reply"]]
                        /\ UNCHANGED <<queue, activeCount>>
                   ELSE Settled(m, [made EXCEPT !.pc = "done"])
    /\ UNCHANGED <<recentEvents, timers, created>>
    /\ UNCHANGED <<bridgeVars, mcpVars, opVars, outcomes, runVars>>

\* the reply of the fallback settles: one that rejected throws out of
\* processMessageFallback into the catch around it
FallbackReplySettles(m) ==
    /\ tasks[m].pc = "fallback reply"
    /\ \E resolves \in BOOLEAN :
        IF resolves
        THEN Settled(m, [tasks[m] EXCEPT !.pc = "done", !.replies = @ + 1])
        ELSE Settled(m, [tasks[m] EXCEPT
                            !.pc = "done", !.fallbackThrew = TRUE,
                            !.rejected = ~FallbackCatches("reply rejected")])
    /\ UNCHANGED <<recentEvents, timers, created, stats>>
    /\ UNCHANGED <<bridgeVars, mcpVars, opVars, outcomes, runVars>>

NextSecretary ==
    \/ \E m \in 1..MaxReceived : ReceiveMessage(m)
    \/ StartProcessMessage
    \/ \E m \in 1..MaxReceived : ProcessEventMessageSettles(m)
    \/ \E m \in 1..MaxReceived : McpReplySettles(m)
    \/ \E m \in 1..MaxReceived : FallbackExtractSettles(m)
    \/ \E m \in 1..MaxReceived : FallbackCreateSettles(m)
    \/ \E m \in 1..MaxReceived : FallbackReplySettles(m)

SpecSecretary == InitSecretary /\ [][NextSecretary]_vars

\* C34: processMessage never rejects: when the MCP path throws, at
\* whatever step, the fallback extraction runs exactly once (and it does
\* not run otherwise), and a failure of the fallback is caught as well
C34_ProcessMessageNeverRejects ==
    \A m \in 1..MaxReceived :
        /\ ~tasks[m].rejected
        /\ tasks[m].threw => tasks[m].fallbacks = 1
        /\ ~tasks[m].threw => tasks[m].fallbacks = 0
        /\ tasks[m].fallbackThrew => tasks[m].pc = "done"

\* the reply of the MCP path rejected, the fallback ran and its reply
\* rejected too: processMessage has settled
C34_Witness ==
    \E m \in 1..MaxReceived :
        /\ tasks[m].pc = "done" /\ tasks[m].threw
        /\ tasks[m].toolCalls = 1 /\ tasks[m].fallbacks = 1
        /\ tasks[m].fallbackThrew /\ ~tasks[m].rejected

\* C35: the fallback path creates a calendar event only if the MCP path
\* executed no tool call for that message: no message is acted on by both
C35_OnePathActs ==
    \A m \in 1..MaxReceived :
        tasks[m].fallbackCreated > 0 => tasks[m].toolCalls = 0

\* C36: eventsCreated <= eventsDetected <= messagesProcessed in every
\* reachable state
C36_CountersOrdered ==
    /\ stats.eventsCreated <= stats.eventsDetected
    /\ stats.eventsDetected <= stats.messagesProcessed

\* C37: eventsCreated is incremented for a message only when a createEvent
\* call made for that message returned success
C37_CountedOnlyOnSuccess ==
    \A m \in 1..MaxReceived :
        tasks[m].counted > 0 =>
            tasks[m].mcpCreated + tasks[m].fallbackCreated > 0

\* messages handleMessage has been through
Handled == {m \in 1..MaxReceived : tasks[m].pc # "new"}

\* C38: only a message of the target group that is from me is handed to
\* processMessage; any other message triggers no model call, no calendar
\* operation and no reply, and is counted in messagesProcessed all the same
C38_OnlyTargetMessagesProcessed ==
    /\ stats.messagesProcessed = Cardinality(Handled)
    /\ \A m \in Handled :
          \/ tasks[m].chat = "target" /\ tasks[m].fromMe
          \/ /\ tasks[m].pc = "skipped"
             /\ tasks[m].modelCalls = 0 /\ tasks[m].toolCalls = 0
             /\ tasks[m].calendarOps = 0 /\ tasks[m].replies = 0

\* a message of the target group from somebody else was dropped, one from
\* me was processed: both are counted
C38_Witness ==
    /\ stats.messagesProcessed = 2
    /\ tasks[1].pc = "skipped" /\ tasks[1].chat = "target"
    /\ ~tasks[1].fromMe
    /\ tasks[2].pc = "done" /\ tasks[2].modelCalls > 0
    /\ tasks[2].replies = 1

(***************************************************************************)
(* parseToolResponse on tool_calls arrays of valid and invalid entries.    *)
(***************************************************************************)
\* the longest tool_calls array validated on its own
MaxValidated == 3

\* entries of a tool_calls array: two calls of the catalog, a call of an
\* unknown tool, a call without arguments, and null
ValidatedCalls ==
    {PayloadCall("create_calendar_event",
                 <<"{", "title:", "value", ",", "start_time:", "value", "}">>),
     PayloadCall("search_calendar_events", <<"{", "query:", "value", "}">>),
     PayloadCall(UnknownToolName, <<"{", "}">>),
     <<"{", "name:", "create_calendar_event", "}">>,
     <<"null">>}

ValidateOps ==
    {[fn |-> "parseToolResponse", entries |-> e] :
        e \in UNION {[1..n -> ValidatedCalls] : n \in 0..MaxValidated}}

\* parseToolResponse is applied to the payload holding the entries
ParseToolResponse ==
    /\ op.fn = "parseToolResponse" /\ out = <<>>
    /\ out' = <<parseToolResponse(Payload(op.entries))>>
    /\ UNCHANGED <<op, bridgeVars, mcpVars, outcomes, appVars, runVars>>

\* a tool call that has a catalog name and an arguments object
IsValidCall(v) ==
    /\ v.t = "o"
    /\ IsValidToolName(Get(v, "name:"))
    /\ Get(v, "arguments:").t = "o"

\* the tool_calls of the payload as JSON.parse gives them
GivenCalls == ToolCallsOf(JSONParse(Payload(op.entries)).v).m

\* C33: validation drops nothing but invalid calls: every call with a
\* catalog name and an arguments object is retained, in the original
\* relative order, whatever invalid calls stand around it
C33_ValidCallsRetained ==
    (op.fn = "parseToolResponse" /\ out # <<>>) =>
        SelectSeq(out[1].toolCalls.m, IsValidCall)
            = SelectSeq(GivenCalls, IsValidCall)

(***************************************************************************)
(* tools/call requests of delete_calendar_event, with and without the      *)
(* confirmation argument.                                                  *)
(***************************************************************************)
\* the arguments of the call: confirmation given as token c, or left out
DeleteArguments(c) ==
    IF c = "" THEN <<"{", "event_identifier:", "value", "}">>
    ELSE <<"{", "event_identifier:", "value", ",", "confirmation:", c, "}">>

DeleteCall(c) ==
    JSONParse(PayloadCall("delete_calendar_event", DeleteArguments(c))).v

DeleteOps ==
    {[fn |-> "tools/call", confirmation |-> c, outcome |-> o] :
        c \in {"", "true", "false"},
        o \in McpStoreOutcomes("delete_calendar_event")}

\* server.request({method: 'tools/call', params}) settles: the result, and
\* the Calendar Store operations the handler reached
CallTool ==
    /\ op.fn = "tools/call" /\ out = <<>>
    /\ out' = <<[result |-> handleRequest(DeleteCall(op.confirmation),
                                          op.outcome).value,
                 storeCalls |-> serverStoreCalls(DeleteCall(op.confirmation),
                                                 op.outcome)]>>
    /\ UNCHANGED <<op, bridgeVars, mcpVars, outcomes, appVars, runVars>>

\* C39: delete_calendar_event with confirmation = false neither looks the
\* event up nor deletes it and yields an error result; with confirmation
\* left out it does what it does with confirmation = true
C39_DeleteNeedsConfirmation ==
    (op.fn = "tools/call" /\ out # <<>>) =>
        /\ op.confirmation = "false" =>
              /\ out[1].storeCalls = <<>>
              /\ out[1].result.isError
              /\ out[1].result.text = "Event deletion requires confirmation"
        /\ op.confirmation = "" =>
              /\ out[1].result
                    = handleRequest(DeleteCall("true"), op.outcome).value
              /\ out[1].storeCalls
                    = serverStoreCalls(DeleteCall("true"), op.outcome)
        /\ (op.confirmation = "true" /\ op.outcome = "ok") =>
              /\ out[1].storeCalls = <<"findEventByIdentifier", "deleteEvent">>
              /\ ~out[1].result.isError

\* an unconfirmed deletion of an event the store holds was refused
C39_Witness ==
    /\ op.fn = "tools/call" /\ out # <<>>
    /\ op.confirmation = "false" /\ op.outcome = "ok"
    /\ out[1].result.isError /\ out[1].storeCalls = <<>>

InitTools ==
    /\ outcomes = <<>>
    /\ IdleBridge /\ IdleMCP /\ IdleApp
    /\ op \in SearchOps \cup FormatOps \cup CreateOps \cup MCPCreateOps
               \cup ResolveOps \cup IdentifierOps \cup ServiceOps
               \cup RetryOps \cup ValidateOps \cup DeleteOps
    /\ out = <<>>

NextTools ==
    \/ SearchEvents
    \/ FormatResponse
    \/ CreateEvent
    \/ MCPCreateEvent
    \/ Resolve
    \/ MutateByIdentifier
    \/ CallCalendarService
    \/ Retry
    \/ ParseToolResponse
    \/ CallTool

SpecTools == InitTools /\ [][NextTools]_vars

\* the positions of the events whose title or description holds the query,
\* whatever the case of the letters
RECURSIVE Matching(_, _, _)
Matching(events, query, i) ==
    IF i > Len(events) THEN <<>>
    ELSE (IF \E field \in {events[i].summary, events[i].description} :
                /\ ~field.absent
                /\ \E j \in 0..(Len(field.str) - Len(query)) :
                      \A k \in 1..Len(query) :
                          toLowerCase(<<field.str[j + k]>>)
                            = toLowerCase(<<query[k]>>)
          THEN <<i>> ELSE <<>>)
         \o Matching(events, query, i + 1)

\* the first n elements of s, all of s when it has fewer
FirstN(s, n) == [i \in 1..(IF n < Len(s) THEN n ELSE Len(s)) |-> s[i]]

FailedResult(r) ==
    \/ r.error # ""
    \/ r.isError
    \/ (r.data # <<>> /\ ~r.data[1].success)

\* a result that reports a success: a payload with success true
SucceededResult(r) == r.data # <<>> /\ r.data[1].success

\* the results that say something: all but those without error text and
\* without content
SaysSomething(r) == r.error # "" \/ r.content

\* the mark and text of the success line of an intent
SuccessLine(intent, r) ==
    CASE intent = "create_event" -> Line("success", "Event created: ")
      [] intent = "edit_event" -> Line("success", "Event updated: ")
      [] intent = "delete_event" -> Line("success", "Event deleted: ")
      [] intent = "query_events" ->
           Line("events", IF r.data[1].events > 0 THEN "Found event(s)"
                          ELSE "No events found")
      [] OTHER -> Line("success", r.data[1].message)

\* C17: formatResponse renders every failed result as an error line and
\* every successful one as the success line of the intent, one line for
\* each result in order; a failed result never becomes a success line.
C17_FailedIsErrorLine ==
    (op.fn = "format" /\ out # <<>>) =>
        LET results == SelectSeq(op.results, SaysSomething) IN
        results # <<>> =>
            /\ Len(out[1]) = Len(results)
            /\ \A k \in 1..Len(results) :
                /\ FailedResult(results[k]) => out[1][k].mark = "error"
                /\ SucceededResult(results[k]) =>
                      out[1][k] = SuccessLine(op.intent, results[k])

\* C18: formatResponse never returns the empty string: the reply has at
\* least one line and no line is empty; an empty list of results gives the
\* generic message.
C18_ReplyNeverEmpty ==
    (op.fn = "format" /\ out # <<>>) =>
        /\ Len(out[1]) >= 1
        /\ \A k \in 1..Len(out[1]) : out[1][k].mark # "" \/ out[1][k].text # ""
        /\ op.results = <<>> =>
              out[1] = <<Line("", "I couldn't process your request.")>>

\* a list of results none of which yields a line: the generic line of the
\* return statement
C18_Witness ==
    /\ op.fn = "format"
    /\ op.results = <<ThrownResult("")>>
    /\ out = <<<<Line("", "Operation completed.")>>>>

\* create_calendar_event was applied to arguments without end_time
CreatedWithoutEnd ==
    /\ op.fn = "create" /\ out # <<>>
    /\ op.args.end_time.kind = "absent"

\* C19: when create_calendar_event is called without end_time, the event
\* sent to the Calendar Store ends exactly 60 minutes after its start
\* instant, so after the start, for every start time and every UTC offset
\* of the start string.
C19_EndsOneHourAfterStart ==
    CreatedWithoutEnd =>
        /\ Date(out[1].end) = Date(out[1].start) + 60
        /\ Date(out[1].end) > Date(out[1].start)

\* the MCP service's create_calendar_event was applied to a start_time that
\* expresses tomorrow at 2pm: the phrase "tomorrow 2:00 PM", or the ISO
\* string of the next calendar day at 14:00 in the calendar's zone
CreatedForTomorrowAt2pm ==
    /\ op.fn = "mcp_create" /\ out # <<>>
    /\ \/ op.args.start_time = Words
       \/ op.args.start_time = Local(TomorrowAt2pm(op.now))
       \/ op.args.start_time = Iso(TomorrowAt2pm(op.now), op.zone)

\* C20: for create_calendar_event with a start_time expressing tomorrow at
\* 2pm, the event created in the Calendar Store starts on the next calendar
\* day at 14:00 local time.
C20_StartsTomorrowAt2pm ==
    CreatedForTomorrowAt2pm =>
        Date(out[1].start) + op.zone = TomorrowAt2pm(op.now)

\* parseDateTime of the bridge or of the server was applied
ParsedDateTime == op.fn \in {"parseDateTime", "serverParseDateTime"}

\* the offset of the operating timezone of the resolver applied
OperatingOffset == IF op.fn = "parseDateTime" THEN 180 ELSE op.zone

\* C21: every instant parseDateTime returns (for today, tomorrow,
\* yesterday, weekday names and absolute inputs) is timezone-qualified with
\* the UTC offset of the configured operating timezone, never a naive local
\* time, and two calls with the same expression within the same second
\* return the same instant.
C21_QualifiedAndIdempotent ==
    (ParsedDateTime /\ (op.dateStr.exact \/ op.dateStr.kw = "none")) =>
        /\ \A i \in 1..Len(out) :
              out[i].kind = "iso" /\ out[i].offset = OperatingOffset
        /\ Len(out) = 2 =>
              /\ Date(out[1]) = Date(out[2])
              /\ out[1].sub = out[2].sub

\* the wall clock an expression naming today or tomorrow stands for at the
\* moment now: its clock time on that day, else the start or the end of
\* that day
NamedWall(e, endOfDay, now) ==
    LET day == (now \div 1440 + (IF e.kw = "tomorrow" THEN 1 ELSE 0)) * 1440
        hour == CASE e.period = "pm" /\ e.hour # 12 -> e.hour + 12
                  [] e.period = "am" /\ e.hour = 12 -> 0
                  [] OTHER -> e.hour
    IN  CASE e.period # "none" -> day + hour * 60
          [] endOfDay -> day + 1439
          [] OTHER -> day

\* C22: for an expression that names today or tomorrow (alone or inside a
\* longer phrase), parseDateTime applies an embedded clock time to that
\* calendar day, and when no clock time is present it returns start-of-day
\* of that day, or end-of-day when endOfDay is requested.
C22_ClockTimeOrDayBoundary ==
    (ParsedDateTime /\ op.dateStr.kw \in {"today", "tomorrow"}) =>
        \A i \in 1..Len(out) :
            /\ out[i].kind = "iso"
            /\ Date(out[i]) + OperatingOffset
                   = NamedWall(op.dateStr, op.endOfDay, op.now)

\* the expression is one of the fixed vocabulary and is given to the
\* resolver of its kind: a day to parseDateTime, a range to parseDateRange
VocabularyGiven ==
    /\ op.fn \in {"parseDateTime", "serverParseDateTime", "parseDateRange"}
    /\ op.dateStr.exact
    /\ IF op.fn = "parseDateRange"
       THEN op.dateStr.kw \in {"today", "tomorrow", "this week", "next week",
                               "this month", "next month"}
       ELSE op.dateStr.kw \in {"today", "tomorrow", "yesterday", "monday"}

\* C23: every expression of the fixed vocabulary (today, tomorrow,
\* yesterday, weekday names, this/next week or month) is resolved by its
\* keyword rule and never takes the direct-parse or current-instant
\* fallback.
C23_VocabularyByKeywordRule ==
    VocabularyGiven => \A i \in 1..Len(out) : out[i].rule = "keyword"

\* C24: parseDateTime never fails and never returns an invalid or null
\* instant: when the expression matches no keyword and cannot be parsed as
\* an absolute date/time, it returns the current instant, marked as the
\* fallback.
C24_NeverNullFallsBackToNow ==
    ParsedDateTime =>
        \A i \in 1..Len(out) :
            /\ out[i].kind = "iso"
            /\ (op.dateStr.kw \notin {"today", "tomorrow", "yesterday"}
                /\ op.dateStr.abs = -1) =>
                   /\ Date(out[i]) + OperatingOffset = op.now
                   /\ out[i].sub = op.subs[i]
                   /\ out[i].rule = "fallback"

\* the messages whose processMessage is running
Running ==
    {m \in DOMAIN tasks : tasks[m].pc \in {"extract", "create", "reply"}}

\* C25: at every moment at most maxConcurrentCalendarOps message-processing
\* tasks are running; further accepted messages wait until a running one
\* finishes, and every accepted message is eventually processed once the
\* tasks before it finish.
C25_AdmissionGate ==
    /\ [](/\ Cardinality(Running) <= maxConcurrentCalendarOps
          /\ activeCount = Cardinality(Running)
          /\ \A i \in 1..Len(queue) : tasks[queue[i]].pc = "queued")
    /\ \A m \in 1..MaxMessages :
          (tasks # <<>> /\ tasks[m].pc = "queued")
              ~> (tasks[m].pc = "done")

\* the gate is full and a message waits
C25_Witness ==
    /\ Cardinality(Running) = maxConcurrentCalendarOps
    /\ queue # <<>>

\* C26: when two messages yield the same event key within the duplicate
\* window, at most one calendar event is created for them, including when
\* the two messages are processed concurrently under the admission gate.
C26_AtMostOneEventPerKey ==
    \A k \in EventKeys :
        \* no timer of the key has fired: the window has not elapsed
        timers[k] = created[k] => created[k] <= 1

\* every turn of a conversation was pushed by run r
OwnTurns(r, conversation) ==
    \A i \in 1..Len(conversation) : conversation[i].by = r

\* C27: two orchestration runs processed concurrently share no conversation
\* state: no turn appended by one run ever appears in the other run's
\* conversation or in a model call of the other run, under every
\* interleaving of their steps.
C27_RunsIsolated ==
    \A r \in DOMAIN runs :
        /\ OwnTurns(r, conversations[messagesOf(r)])
        /\ \A i \in 1..Len(runs[r].seen) : OwnTurns(r, runs[r].seen[i])

\* both runs have called the model after tool turns of their own, while
\* the other run was in progress
C27_Witness ==
    /\ runs # <<>>
    /\ \A r \in Runs :
        /\ Len(runs[r].seen) >= 2
        /\ runs[r].pc \in {"await", "tools"}

\* the events of the store whose title holds the identifier, whatever the
\* case of the letters
TitleMatches(identifier, store) ==
    {e \in store : /\ ~e.summary.absent
                   /\ includes(toLowerCase(e.summary.str),
                               toLowerCase(identifier))}

\* update or delete was applied to an identifier that is no event id
ResolvedByTitle ==
    /\ op.fn \in {"update_calendar_event", "delete_calendar_event"}
    /\ out # <<>>
    /\ \A e \in op.store : e.id # op.identifier

\* C28: a human-readable identifier given to update/delete is resolved by
\* title against the events of the current month: an event outside the
\* current month is never updated or deleted through a title match, and
\* among the matches the chronologically first event whose title contains
\* the identifier case-insensitively is the one acted on.
C28_FirstTitleMatchOfMonth ==
    ResolvedByTitle =>
        LET inMonth == {e \in TitleMatches(op.identifier, op.store) :
                            e.start + op.zone \in 0..(31 * 1440 - 1)}
        IN  IF inMonth = {} THEN out[1] = <<>>
            ELSE /\ Len(out[1]) = 1
                 /\ \E e \in inMonth :
                       /\ out[1][1].id = e.id
                       /\ \A other \in inMonth : e.start <= other.start

\* a title of this month and of another month match: the one of this
\* month that starts first is acted on, not the earlier one of last month
C28_Witness ==
    /\ ResolvedByTitle
    /\ out[1] # <<>>
    /\ out[1][1].id = <<"e", "1">>
    /\ Cardinality(TitleMatches(op.identifier, op.store)) >= 3
    /\ \E e \in TitleMatches(op.identifier, op.store) : e.start < 0

\* a method of CalendarService was called with a backend step that fails
BackendFailed ==
    /\ op.fn = "CalendarService" /\ out # <<>>
    /\ \E i \in DOMAIN op.backend : op.backend[i] = "error"

\* C29: CalendarService.createEvent, updateEvent and deleteEvent never
\* throw: every backend failure is returned as {success:false, error}, and
\* a success is returned as {success:true, ...}; only getEvents propagates
\* a backend failure to its caller.
C29_MutationsNeverThrow ==
    (op.fn = "CalendarService" /\ out # <<>>) =>
        IF op.method = "getEvents"
        THEN (out[1].thrown # "") = BackendFailed
        ELSE /\ out[1].thrown = ""
             /\ out[1].value.success = ~BackendFailed
             /\ BackendFailed => out[1].value.error # ""

\* updateEvent whose events.get succeeded and whose events.update failed
C29_Witness ==
    /\ BackendFailed
    /\ op.method = "updateEvent"
    /\ op.backend = <<"ok", "error">>
    /\ out[1].thrown = ""
    /\ ~out[1].value.success

\* the conversation ends with the last assistant turn followed by one tool
\* turn for each of its tool calls, in the order of the calls
AnsweredInOrder ==
    LET a == Max(TurnsOf("assistant"))
        calls == messages[a].tool_calls
    IN  /\ messages[a].tool_calls = assistantMessage.tool_calls
        /\ Len(messages) = a + Len(calls)
        /\ \A j \in 1..Len(calls) :
              /\ messages[a + j].role = "tool"
              /\ messages[a + j].tool_call_id = calls[j].id

\* C30: before every model call after the first in a processMessage run,
\* the conversation is the previous call's conversation as an unchanged
\* prefix, followed by the assistant turn and exactly one tool turn for each
\* tool call of that assistant turn, in the order of the calls; no turn is
\* ever removed, reordered or modified.
C30_ConversationGrowsByAnsweredTurn ==
    /\ [](pc = "loop" /\ modelCalls >= 1 => AnsweredInOrder)
    /\ [][/\ IsPrefix(messages, messages')
          /\ (modelCalls' # modelCalls =>
                /\ modelCalls' = modelCalls + 1
                /\ pc = "loop"
                /\ Len(messages') <= Len(messages) + 1)]_vars

\* the second model call was made on the first call's conversation, its
\* assistant turn and the tool turns of its two tool calls
C30_Witness ==
    /\ modelCalls = 2
    /\ Len(messages) >= 6
    /\ messages[3].role = "assistant"
    /\ Len(messages[3].tool_calls) = 2
    /\ messages[4].tool_call_id = messages[3].tool_calls[1].id
    /\ messages[5].tool_call_id = messages[3].tool_calls[2].id
    /\ messages[6].role = "assistant"
====
